---- MODULE Spec2Model ----
(***************************************************************************)
(* PagerDuty MCP server: composition of the tool catalog (server.New),     *)
(* the HTTP front door (auth.Middleware, HTTPServer.handleHealth,          *)
(* HTTPServer.handleJSONRPC), the stdio front door, the tool handlers and  *)
(* the backend gateway's credential resolution (client.Client).            *)
(***************************************************************************)
EXTENDS Integers, Sequences, FiniteSets, TLC

VARIABLES
    cfg,         \* server.Config: [EnableWriteTools]
    httpMode,    \* the --http flag of main
    authorizer,  \* HTTPConfig.Authorizer: which implementation is plugged in
    pdClient,    \* client.Client: [apiKey]
    mcpServer,   \* the MCP server: [tools], the registered tool descriptors
    conn,        \* requests being served: slot -> request record or Idle
    router       \* the backend: the router of orchestration OrchestrationId

vars == <<cfg, httpMode, authorizer, pdClient, mcpServer, conn, router>>

(***************************************************************************)
(* Bounds.                                                                 *)
(***************************************************************************)
MaxId == 2      \* JSON-RPC request ids are drawn from 1..MaxId
MaxConn == 2    \* HTTP requests served concurrently in SpecConc
MaxLen == 3     \* characters in a comma-separated list argument
MaxRules == 2   \* rules the backend accepts in a router's first rule set
MaxPages == 3   \* pages a pagination walk is followed for

(***************************************************************************)
(* Program constants.                                                      *)
(***************************************************************************)
ServerName == "PagerDuty MCP Server"
ServerVersion == "0.1.0"
StatusOK == 200
StatusBadRequest == 400
StatusUnauthorized == 401
StatusMethodNotAllowed == 405
StatusInternalServerError == 500

\* the value of PAGERDUTY_USER_API_KEY the client is constructed with
DefaultAPIKey == "env-api-key"

(***************************************************************************)
(* Tool handlers.  checks: the required arguments in the order the handler *)
(* reads them with getString and returns "<param> is required" for;        *)
(* calls: the gateway calls the handler issues, in order, when none fails; *)
(* parse: the argument the handler json.Unmarshals before its first call;  *)
(* raw: the gateway variant returns the body undecoded (Post, Put, Delete) *)
(* rather than decoding it (GetJSON, PostJSON, PutJSON);                   *)
(* paths: per call, the literal parts of the path alternating with the     *)
(* arguments spliced between them;                                         *)
(* query: the params map the handler builds for its GET, as triples of the *)
(* argument, the query key and the getter (string, number or bool).        *)
(* Tool registrars: the descriptors each Register*Tools function adds.     *)
(***************************************************************************)
listAlertGroupingSettingsHandler ==
    [fn |-> "listAlertGroupingSettingsHandler", checks |-> <<>>, calls |-> <<"GET">>, parse |-> "",
     raw |-> FALSE, paths |-> <<<<"/alert_grouping_settings">>>>,
     query |-> <<<<"service_ids", "service_ids[]", "string">>,
                 <<"limit", "limit", "number">>>>]

getAlertGroupingSettingHandler ==
    [fn |-> "getAlertGroupingSettingHandler", checks |-> <<"setting_id">>, calls |-> <<"GET">>, parse |-> "",
     raw |-> FALSE, paths |-> <<<<"/alert_grouping_settings/", "setting_id", "">>>>,
     query |-> <<>>]

createAlertGroupingSettingHandler ==
    [fn |-> "createAlertGroupingSettingHandler", checks |-> <<"name", "service_ids", "type">>, calls |-> <<"POST">>, parse |-> "",
     raw |-> FALSE, paths |-> <<<<"/alert_grouping_settings">>>>,
     query |-> <<>>]

updateAlertGroupingSettingHandler ==
    [fn |-> "updateAlertGroupingSettingHandler", checks |-> <<"setting_id">>, calls |-> <<"PUT">>, parse |-> "",
     raw |-> FALSE, paths |-> <<<<"/alert_grouping_settings/", "setting_id", "">>>>,
     query |-> <<>>]

deleteAlertGroupingSettingHandler ==
    [fn |-> "deleteAlertGroupingSettingHandler", checks |-> <<"setting_id">>, calls |-> <<"DELETE">>, parse |-> "",
     raw |-> TRUE, paths |-> <<<<"/alert_grouping_settings/", "setting_id", "">>>>,
     query |-> <<>>]

listChangeEventsHandler ==
    [fn |-> "listChangeEventsHandler", checks |-> <<>>, calls |-> <<"GET">>, parse |-> "",
     raw |-> FALSE, paths |-> <<<<"/change_events">>>>,
     query |-> <<<<"since", "since", "string">>,
                 <<"until", "until", "string">>,
                 <<"team_ids", "team_ids[]", "string">>,
                 <<"service_ids", "service_ids[]", "string">>,
                 <<"limit", "limit", "number">>>>]

getChangeEventHandler ==
    [fn |-> "getChangeEventHandler", checks |-> <<"change_event_id">>, calls |-> <<"GET">>, parse |-> "",
     raw |-> FALSE, paths |-> <<<<"/change_events/", "change_event_id", "">>>>,
     query |-> <<>>]

listServiceChangeEventsHandler ==
    [fn |-> "listServiceChangeEventsHandler", checks |-> <<"service_id">>, calls |-> <<"GET">>, parse |-> "",
     raw |-> FALSE, paths |-> <<<<"/services/", "service_id", "/change_events">>>>,
     query |-> <<<<"since", "since", "string">>,
                 <<"until", "until", "string">>,
                 <<"limit", "limit", "number">>>>]

listIncidentChangeEventsHandler ==
    [fn |-> "listIncidentChangeEventsHandler", checks |-> <<"incident_id">>, calls |-> <<"GET">>, parse |-> "",
     raw |-> FALSE, paths |-> <<<<"/incidents/", "incident_id", "/related_change_events">>>>,
     query |-> <<<<"limit", "limit", "number">>>>]

listIncidentWorkflowsHandler ==
    [fn |-> "listIncidentWorkflowsHandler", checks |-> <<>>, calls |-> <<"GET">>, parse |-> "",
     raw |-> FALSE, paths |-> <<<<"/incident_workflows">>>>,
     query |-> <<<<"query", "query", "string">>,
                 <<"limit", "limit", "number">>>>]

getIncidentWorkflowHandler ==
    [fn |-> "getIncidentWorkflowHandler", checks |-> <<"workflow_id">>, calls |-> <<"GET">>, parse |-> "",
     raw |-> FALSE, paths |-> <<<<"/incident_workflows/", "workflow_id", "">>>>,
     query |-> <<>>]

startIncidentWorkflowHandler ==
    [fn |-> "startIncidentWorkflowHandler", checks |-> <<"workflow_id", "incident_id">>, calls |-> <<"POST">>, parse |-> "",
     raw |-> FALSE, paths |-> <<<<"/incident_workflows/", "workflow_id", "/instances">>>>,
     query |-> <<>>]

listIncidentsHandler ==
    [fn |-> "listIncidentsHandler", checks |-> <<>>, calls |-> <<"GET">>, parse |-> "",
     raw |-> FALSE, paths |-> <<<<"/incidents">>>>,
     query |-> <<<<"statuses", "statuses[]", "string">>,
                 <<"date_range", "date_range", "string">>,
                 <<"since", "since", "string">>,
                 <<"until", "until", "string">>,
                 <<"urgencies", "urgencies[]", "string">>,
                 <<"limit", "limit", "number">>>>]

getIncidentHandler ==
    [fn |-> "getIncidentHandler", checks |-> <<"incident_id">>, calls |-> <<"GET">>, parse |-> "",
     raw |-> FALSE, paths |-> <<<<"/incidents/", "incident_id", "">>>>,
     query |-> <<>>]

getOutlierIncidentHandler ==
    [fn |-> "getOutlierIncidentHandler", checks |-> <<"incident_id">>, calls |-> <<"GET">>, parse |-> "",
     raw |-> FALSE, paths |-> <<<<"/incidents/", "incident_id", "/outlier_incident">>>>,
     query |-> <<<<"since", "since", "string">>>>]

getPastIncidentsHandler ==
    [fn |-> "getPastIncidentsHandler", checks |-> <<"incident_id">>, calls |-> <<"GET">>, parse |-> "",
     raw |-> FALSE, paths |-> <<<<"/incidents/", "incident_id", "/past_incidents">>>>,
     query |-> <<<<"limit", "limit", "number">>>>]

getRelatedIncidentsHandler ==
    [fn |-> "getRelatedIncidentsHandler", checks |-> <<"incident_id">>, calls |-> <<"GET">>, parse |-> "",
     raw |-> FALSE, paths |-> <<<<"/incidents/", "incident_id", "/related_incidents">>>>,
     query |-> <<>>]

listIncidentNotesHandler ==
    [fn |-> "listIncidentNotesHandler", checks |-> <<"incident_id">>, calls |-> <<"GET">>, parse |-> "",
     raw |-> FALSE, paths |-> <<<<"/incidents/", "incident_id", "/notes">>>>,
     query |-> <<>>]

createIncidentHandler ==
    [fn |-> "createIncidentHandler", checks |-> <<"title", "service_id">>, calls |-> <<"POST">>, parse |-> "",
     raw |-> FALSE, paths |-> <<<<"/incidents">>>>,
     query |-> <<>>]

manageIncidentsHandler ==
    [fn |-> "manageIncidentsHandler", checks |-> <<"incident_ids">>, calls |-> <<"PUT">>, parse |-> "",
     raw |-> FALSE, paths |-> <<<<"/incidents">>>>,
     query |-> <<>>]

addRespondersHandler ==
    [fn |-> "addRespondersHandler", checks |-> <<"incident_id", "responder_ids">>, calls |-> <<"POST">>, parse |-> "",
     raw |-> TRUE, paths |-> <<<<"/incidents/", "incident_id", "/responder_requests">>>>,
     query |-> <<>>]

addNoteToIncidentHandler ==
    [fn |-> "addNoteToIncidentHandler", checks |-> <<"incident_id", "note">>, calls |-> <<"POST">>, parse |-> "",
     raw |-> FALSE, paths |-> <<<<"/incidents/", "incident_id", "/notes">>>>,
     query |-> <<>>]

listOncallsHandler ==
    [fn |-> "listOncallsHandler", checks |-> <<>>, calls |-> <<"GET">>, parse |-> "",
     raw |-> FALSE, paths |-> <<<<"/oncalls">>>>,
     query |-> <<<<"time_zone", "time_zone", "string">>,
                 <<"since", "since", "string">>,
                 <<"until", "until", "string">>,
                 <<"earliest", "earliest", "bool">>,
                 <<"schedule_ids", "schedule_ids[]", "string">>,
                 <<"user_ids", "user_ids[]", "string">>,
                 <<"escalation_policy_ids", "escalation_policy_ids[]", "string">>,
                 <<"limit", "limit", "number">>>>]

listSchedulesHandler ==
    [fn |-> "listSchedulesHandler", checks |-> <<>>, calls |-> <<"GET">>, parse |-> "",
     raw |-> FALSE, paths |-> <<<<"/schedules">>>>,
     query |-> <<<<"query", "query", "string">>,
                 <<"limit", "limit", "number">>>>]

getScheduleHandler ==
    [fn |-> "getScheduleHandler", checks |-> <<"schedule_id">>, calls |-> <<"GET">>, parse |-> "",
     raw |-> FALSE, paths |-> <<<<"/schedules/", "schedule_id", "">>>>,
     query |-> <<<<"since", "since", "string">>,
                 <<"until", "until", "string">>>>]

listScheduleUsersHandler ==
    [fn |-> "listScheduleUsersHandler", checks |-> <<"schedule_id">>, calls |-> <<"GET">>, parse |-> "",
     raw |-> FALSE, paths |-> <<<<"/schedules/", "schedule_id", "/users">>>>,
     query |-> <<<<"since", "since", "string">>,
                 <<"until", "until", "string">>>>]

createScheduleHandler ==
    [fn |-> "createScheduleHandler", checks |-> <<"name", "time_zone">>, calls |-> <<"POST">>, parse |-> "",
     raw |-> FALSE, paths |-> <<<<"/schedules">>>>,
     query |-> <<>>]

createScheduleOverrideHandler ==
    [fn |-> "createScheduleOverrideHandler", checks |-> <<"schedule_id", "user_id", "start", "end">>, calls |-> <<"POST">>, parse |-> "",
     raw |-> FALSE, paths |-> <<<<"/schedules/", "schedule_id", "/overrides">>>>,
     query |-> <<>>]

updateScheduleHandler ==
    [fn |-> "updateScheduleHandler", checks |-> <<"schedule_id">>, calls |-> <<"PUT">>, parse |-> "",
     raw |-> FALSE, paths |-> <<<<"/schedules/", "schedule_id", "">>>>,
     query |-> <<>>]

listServicesHandler ==
    [fn |-> "listServicesHandler", checks |-> <<>>, calls |-> <<"GET">>, parse |-> "",
     raw |-> FALSE, paths |-> <<<<"/services">>>>,
     query |-> <<<<"query", "query", "string">>,
                 <<"team_ids", "team_ids[]", "string">>,
                 <<"limit", "limit", "number">>>>]

getServiceHandler ==
    [fn |-> "getServiceHandler", checks |-> <<"service_id">>, calls |-> <<"GET">>, parse |-> "",
     raw |-> FALSE, paths |-> <<<<"/services/", "service_id", "">>>>,
     query |-> <<>>]

createServiceHandler ==
    [fn |-> "createServiceHandler", checks |-> <<"name", "escalation_policy_id">>, calls |-> <<"POST">>, parse |-> "",
     raw |-> FALSE, paths |-> <<<<"/services">>>>,
     query |-> <<>>]

updateServiceHandler ==
    [fn |-> "updateServiceHandler", checks |-> <<"service_id">>, calls |-> <<"PUT">>, parse |-> "",
     raw |-> FALSE, paths |-> <<<<"/services/", "service_id", "">>>>,
     query |-> <<>>]

listStatusPagesHandler ==
    [fn |-> "listStatusPagesHandler", checks |-> <<>>, calls |-> <<"GET">>, parse |-> "",
     raw |-> FALSE, paths |-> <<<<"/status_pages">>>>,
     query |-> <<<<"limit", "limit", "number">>>>]

listStatusPageSeveritiesHandler ==
    [fn |-> "listStatusPageSeveritiesHandler", checks |-> <<"status_page_id">>, calls |-> <<"GET">>, parse |-> "",
     raw |-> FALSE, paths |-> <<<<"/status_pages/", "status_page_id", "/severities">>>>,
     query |-> <<>>]

listStatusPageImpactsHandler ==
    [fn |-> "listStatusPageImpactsHandler", checks |-> <<"status_page_id">>, calls |-> <<"GET">>, parse |-> "",
     raw |-> FALSE, paths |-> <<<<"/status_pages/", "status_page_id", "/impacts">>>>,
     query |-> <<>>]

listStatusPageStatusesHandler ==
    [fn |-> "listStatusPageStatusesHandler", checks |-> <<"status_page_id">>, calls |-> <<"GET">>, parse |-> "",
     raw |-> FALSE, paths |-> <<<<"/status_pages/", "status_page_id", "/statuses">>>>,
     query |-> <<>>]

getStatusPagePostHandler ==
    [fn |-> "getStatusPagePostHandler", checks |-> <<"status_page_id", "post_id">>, calls |-> <<"GET">>, parse |-> "",
     raw |-> FALSE, paths |-> <<<<"/status_pages/", "status_page_id", "/posts/", "post_id", "">>>>,
     query |-> <<>>]

listStatusPagePostUpdatesHandler ==
    [fn |-> "listStatusPagePostUpdatesHandler", checks |-> <<"status_page_id", "post_id">>, calls |-> <<"GET">>, parse |-> "",
     raw |-> FALSE, paths |-> <<<<"/status_pages/", "status_page_id", "/posts/", "post_id", "/post_updates">>>>,
     query |-> <<>>]

createStatusPagePostHandler ==
    [fn |-> "createStatusPagePostHandler", checks |-> <<"status_page_id", "post_type", "title">>, calls |-> <<"POST">>, parse |-> "",
     raw |-> FALSE, paths |-> <<<<"/status_pages/", "status_page_id", "/posts">>>>,
     query |-> <<>>]

createStatusPagePostUpdateHandler ==
    [fn |-> "createStatusPagePostUpdateHandler", checks |-> <<"status_page_id", "post_id", "message">>, calls |-> <<"POST">>, parse |-> "",
     raw |-> FALSE, paths |-> <<<<"/status_pages/", "status_page_id", "/posts/", "post_id", "/post_updates">>>>,
     query |-> <<>>]

listTeamsHandler ==
    [fn |-> "listTeamsHandler", checks |-> <<>>, calls |-> <<"GET">>, parse |-> "",
     raw |-> FALSE, paths |-> <<<<"/teams">>>>,
     query |-> <<<<"query", "query", "string">>,
                 <<"limit", "limit", "number">>>>]

getTeamHandler ==
    [fn |-> "getTeamHandler", checks |-> <<"team_id">>, calls |-> <<"GET">>, parse |-> "",
     raw |-> FALSE, paths |-> <<<<"/teams/", "team_id", "">>>>,
     query |-> <<>>]

listTeamMembersHandler ==
    [fn |-> "listTeamMembersHandler", checks |-> <<"team_id">>, calls |-> <<"GET">>, parse |-> "",
     raw |-> FALSE, paths |-> <<<<"/teams/", "team_id", "/members">>>>,
     query |-> <<<<"limit", "limit", "number">>>>]

createTeamHandler ==
    [fn |-> "createTeamHandler", checks |-> <<"name">>, calls |-> <<"POST">>, parse |-> "",
     raw |-> FALSE, paths |-> <<<<"/teams">>>>,
     query |-> <<>>]

updateTeamHandler ==
    [fn |-> "updateTeamHandler", checks |-> <<"team_id">>, calls |-> <<"PUT">>, parse |-> "",
     raw |-> FALSE, paths |-> <<<<"/teams/", "team_id", "">>>>,
     query |-> <<>>]

deleteTeamHandler ==
    [fn |-> "deleteTeamHandler", checks |-> <<"team_id">>, calls |-> <<"DELETE">>, parse |-> "",
     raw |-> TRUE, paths |-> <<<<"/teams/", "team_id", "">>>>,
     query |-> <<>>]

addTeamMemberHandler ==
    [fn |-> "addTeamMemberHandler", checks |-> <<"team_id", "user_id">>, calls |-> <<"PUT">>, parse |-> "",
     raw |-> TRUE, paths |-> <<<<"/teams/", "team_id", "/users/", "user_id", "">>>>,
     query |-> <<>>]

removeTeamMemberHandler ==
    [fn |-> "removeTeamMemberHandler", checks |-> <<"team_id", "user_id">>, calls |-> <<"DELETE">>, parse |-> "",
     raw |-> TRUE, paths |-> <<<<"/teams/", "team_id", "/users/", "user_id", "">>>>,
     query |-> <<>>]

listEscalationPoliciesHandler ==
    [fn |-> "listEscalationPoliciesHandler", checks |-> <<>>, calls |-> <<"GET">>, parse |-> "",
     raw |-> FALSE, paths |-> <<<<"/escalation_policies">>>>,
     query |-> <<<<"query", "query", "string">>,
                 <<"user_ids", "user_ids[]", "string">>,
                 <<"team_ids", "team_ids[]", "string">>,
                 <<"sort_by", "sort_by", "string">>,
                 <<"limit", "limit", "number">>>>]

getEscalationPolicyHandler ==
    [fn |-> "getEscalationPolicyHandler", checks |-> <<"escalation_policy_id">>, calls |-> <<"GET">>, parse |-> "",
     raw |-> FALSE, paths |-> <<<<"/escalation_policies/", "escalation_policy_id", "">>>>,
     query |-> <<>>]

getUserDataHandler ==
    [fn |-> "getUserDataHandler", checks |-> <<>>, calls |-> <<"GET">>, parse |-> "",
     raw |-> FALSE, paths |-> <<<<"/users/me">>>>,
     query |-> <<>>]

listUsersHandler ==
    [fn |-> "listUsersHandler", checks |-> <<>>, calls |-> <<"GET">>, parse |-> "",
     raw |-> FALSE, paths |-> <<<<"/users">>>>,
     query |-> <<<<"query", "query", "string">>,
                 <<"team_ids", "team_ids[]", "string">>,
                 <<"limit", "limit", "number">>>>]

listEventOrchestrationsHandler ==
    [fn |-> "listEventOrchestrationsHandler", checks |-> <<>>, calls |-> <<"GET">>, parse |-> "",
     raw |-> FALSE, paths |-> <<<<"/event_orchestrations">>>>,
     query |-> <<<<"limit", "limit", "number">>>>]

getEventOrchestrationHandler ==
    [fn |-> "getEventOrchestrationHandler", checks |-> <<"orchestration_id">>, calls |-> <<"GET">>, parse |-> "",
     raw |-> FALSE, paths |-> <<<<"/event_orchestrations/", "orchestration_id", "">>>>,
     query |-> <<>>]

getEventOrchestrationRouterHandler ==
    [fn |-> "getEventOrchestrationRouterHandler", checks |-> <<"orchestration_id">>, calls |-> <<"GET">>, parse |-> "",
     raw |-> FALSE, paths |-> <<<<"/event_orchestrations/", "orchestration_id", "/router">>>>,
     query |-> <<>>]

getEventOrchestrationGlobalHandler ==
    [fn |-> "getEventOrchestrationGlobalHandler", checks |-> <<"orchestration_id">>, calls |-> <<"GET">>, parse |-> "",
     raw |-> FALSE, paths |-> <<<<"/event_orchestrations/", "orchestration_id", "/global">>>>,
     query |-> <<>>]

getEventOrchestrationServiceHandler ==
    [fn |-> "getEventOrchestrationServiceHandler", checks |-> <<"service_id">>, calls |-> <<"GET">>, parse |-> "",
     raw |-> FALSE, paths |-> <<<<"/event_orchestrations/services/", "service_id", "">>>>,
     query |-> <<>>]

updateEventOrchestrationRouterHandler ==
    [fn |-> "updateEventOrchestrationRouterHandler", checks |-> <<"orchestration_id", "config">>, calls |-> <<"PUT">>, parse |-> "config",
     raw |-> FALSE, paths |-> <<<<"/event_orchestrations/", "orchestration_id", "/router">>>>,
     query |-> <<>>]

appendEventOrchestrationRouterRuleHandler ==
    [fn |-> "appendEventOrchestrationRouterRuleHandler", checks |-> <<"orchestration_id", "route_to">>, calls |-> <<"GET", "PUT">>, parse |-> "",
     raw |-> FALSE, paths |-> <<<<"/event_orchestrations/", "orchestration_id", "/router">>, <<"/event_orchestrations/", "orchestration_id", "/router">>>>,
     query |-> <<>>]

RegisterAlertGroupingReadTools ==
    { [name |-> "list_alert_grouping_settings", verb |-> "list", required |-> {},
       readOnlyHint |-> TRUE, destructiveHint |-> FALSE, handler |-> listAlertGroupingSettingsHandler],
      [name |-> "get_alert_grouping_setting", verb |-> "get", required |-> {"setting_id"},
       readOnlyHint |-> TRUE, destructiveHint |-> FALSE, handler |-> getAlertGroupingSettingHandler] }

\* a plausible slip: mcp.Required() is left off create_alert_grouping_setting's
\* service_ids while the handler still insists on it
RegisterAlertGroupingWriteToolsUndeclared ==
    { [name |-> "create_alert_grouping_setting", verb |-> "create", required |-> {"name", "type"},
       readOnlyHint |-> FALSE, destructiveHint |-> FALSE, handler |-> createAlertGroupingSettingHandler],
      [name |-> "update_alert_grouping_setting", verb |-> "update", required |-> {"setting_id"},
       readOnlyHint |-> FALSE, destructiveHint |-> FALSE, handler |-> updateAlertGroupingSettingHandler],
      [name |-> "delete_alert_grouping_setting", verb |-> "delete", required |-> {"setting_id"},
       readOnlyHint |-> FALSE, destructiveHint |-> TRUE, handler |-> deleteAlertGroupingSettingHandler] }

RegisterAlertGroupingWriteTools ==
    { [name |-> "create_alert_grouping_setting", verb |-> "create", required |-> {"name", "service_ids", "type"},
       readOnlyHint |-> FALSE, destructiveHint |-> FALSE, handler |-> createAlertGroupingSettingHandler],
      [name |-> "update_alert_grouping_setting", verb |-> "update", required |-> {"setting_id"},
       readOnlyHint |-> FALSE, destructiveHint |-> FALSE, handler |-> updateAlertGroupingSettingHandler],
      [name |-> "delete_alert_grouping_setting", verb |-> "delete", required |-> {"setting_id"},
       readOnlyHint |-> FALSE, destructiveHint |-> TRUE, handler |-> deleteAlertGroupingSettingHandler] }

RegisterChangeEventReadTools ==
    { [name |-> "list_change_events", verb |-> "list", required |-> {},
       readOnlyHint |-> TRUE, destructiveHint |-> FALSE, handler |-> listChangeEventsHandler],
      [name |-> "get_change_event", verb |-> "get", required |-> {"change_event_id"},
       readOnlyHint |-> TRUE, destructiveHint |-> FALSE, handler |-> getChangeEventHandler],
      [name |-> "list_service_change_events", verb |-> "list", required |-> {"service_id"},
       readOnlyHint |-> TRUE, destructiveHint |-> FALSE, handler |-> listServiceChangeEventsHandler],
      [name |-> "list_incident_change_events", verb |-> "list", required |-> {"incident_id"},
       readOnlyHint |-> TRUE, destructiveHint |-> FALSE, handler |-> listIncidentChangeEventsHandler] }

RegisterIncidentWorkflowReadTools ==
    { [name |-> "list_incident_workflows", verb |-> "list", required |-> {},
       readOnlyHint |-> TRUE, destructiveHint |-> FALSE, handler |-> listIncidentWorkflowsHandler],
      [name |-> "get_incident_workflow", verb |-> "get", required |-> {"workflow_id"},
       readOnlyHint |-> TRUE, destructiveHint |-> FALSE, handler |-> getIncidentWorkflowHandler] }

RegisterIncidentWorkflowWriteTools ==
    { [name |-> "start_incident_workflow", verb |-> "start", required |-> {"workflow_id", "incident_id"},
       readOnlyHint |-> FALSE, destructiveHint |-> FALSE, handler |-> startIncidentWorkflowHandler] }

RegisterIncidentReadTools ==
    { [name |-> "list_incidents", verb |-> "list", required |-> {},
       readOnlyHint |-> TRUE, destructiveHint |-> FALSE, handler |-> listIncidentsHandler],
      [name |-> "get_incident", verb |-> "get", required |-> {"incident_id"},
       readOnlyHint |-> TRUE, destructiveHint |-> FALSE, handler |-> getIncidentHandler],
      [name |-> "get_outlier_incident", verb |-> "get", required |-> {"incident_id"},
       readOnlyHint |-> TRUE, destructiveHint |-> FALSE, handler |-> getOutlierIncidentHandler],
      [name |-> "get_past_incidents", verb |-> "get", required |-> {"incident_id"},
       readOnlyHint |-> TRUE, destructiveHint |-> FALSE, handler |-> getPastIncidentsHandler],
      [name |-> "get_related_incidents", verb |-> "get", required |-> {"incident_id"},
       readOnlyHint |-> TRUE, destructiveHint |-> FALSE, handler |-> getRelatedIncidentsHandler],
      [name |-> "list_incident_notes", verb |-> "list", required |-> {"incident_id"},
       readOnlyHint |-> TRUE, destructiveHint |-> FALSE, handler |-> listIncidentNotesHandler] }

RegisterIncidentWriteTools ==
    { [name |-> "create_incident", verb |-> "create", required |-> {"title", "service_id"},
       readOnlyHint |-> FALSE, destructiveHint |-> FALSE, handler |-> createIncidentHandler],
      [name |-> "manage_incidents", verb |-> "manage", required |-> {"incident_ids"},
       readOnlyHint |-> FALSE, destructiveHint |-> FALSE, handler |-> manageIncidentsHandler],
      [name |-> "add_responders", verb |-> "add", required |-> {"incident_id", "responder_ids"},
       readOnlyHint |-> FALSE, destructiveHint |-> FALSE, handler |-> addRespondersHandler],
      [name |-> "add_note_to_incident", verb |-> "add", required |-> {"incident_id", "note"},
       readOnlyHint |-> FALSE, destructiveHint |-> FALSE, handler |-> addNoteToIncidentHandler] }

RegisterOncallReadTools ==
    { [name |-> "list_oncalls", verb |-> "list", required |-> {},
       readOnlyHint |-> TRUE, destructiveHint |-> FALSE, handler |-> listOncallsHandler] }

RegisterScheduleReadTools ==
    { [name |-> "list_schedules", verb |-> "list", required |-> {},
       readOnlyHint |-> TRUE, destructiveHint |-> FALSE, handler |-> listSchedulesHandler],
      [name |-> "get_schedule", verb |-> "get", required |-> {"schedule_id"},
       readOnlyHint |-> TRUE, destructiveHint |-> FALSE, handler |-> getScheduleHandler],
      [name |-> "list_schedule_users", verb |-> "list", required |-> {"schedule_id"},
       readOnlyHint |-> TRUE, destructiveHint |-> FALSE, handler |-> listScheduleUsersHandler] }

RegisterScheduleWriteTools ==
    { [name |-> "create_schedule", verb |-> "create", required |-> {"name", "time_zone"},
       readOnlyHint |-> FALSE, destructiveHint |-> FALSE, handler |-> createScheduleHandler],
      [name |-> "create_schedule_override", verb |-> "create", required |-> {"schedule_id", "user_id", "start", "end"},
       readOnlyHint |-> FALSE, destructiveHint |-> FALSE, handler |-> createScheduleOverrideHandler],
      [name |-> "update_schedule", verb |-> "update", required |-> {"schedule_id"},
       readOnlyHint |-> FALSE, destructiveHint |-> FALSE, handler |-> updateScheduleHandler] }

RegisterServiceReadTools ==
    { [name |-> "list_services", verb |-> "list", required |-> {},
       readOnlyHint |-> TRUE, destructiveHint |-> FALSE, handler |-> listServicesHandler],
      [name |-> "get_service", verb |-> "get", required |-> {"service_id"},
       readOnlyHint |-> TRUE, destructiveHint |-> FALSE, handler |-> getServiceHandler] }

RegisterServiceWriteTools ==
    { [name |-> "create_service", verb |-> "create", required |-> {"name", "escalation_policy_id"},
       readOnlyHint |-> FALSE, destructiveHint |-> FALSE, handler |-> createServiceHandler],
      [name |-> "update_service", verb |-> "update", required |-> {"service_id"},
       readOnlyHint |-> FALSE, destructiveHint |-> FALSE, handler |-> updateServiceHandler] }

RegisterStatusPageReadTools ==
    { [name |-> "list_status_pages", verb |-> "list", required |-> {},
       readOnlyHint |-> TRUE, destructiveHint |-> FALSE, handler |-> listStatusPagesHandler],
      [name |-> "list_status_page_severities", verb |-> "list", required |-> {"status_page_id"},
       readOnlyHint |-> TRUE, destructiveHint |-> FALSE, handler |-> listStatusPageSeveritiesHandler],
      [name |-> "list_status_page_impacts", verb |-> "list", required |-> {"status_page_id"},
       readOnlyHint |-> TRUE, destructiveHint |-> FALSE, handler |-> listStatusPageImpactsHandler],
      [name |-> "list_status_page_statuses", verb |-> "list", required |-> {"status_page_id"},
       readOnlyHint |-> TRUE, destructiveHint |-> FALSE, handler |-> listStatusPageStatusesHandler],
      [name |-> "get_status_page_post", verb |-> "get", required |-> {"status_page_id", "post_id"},
       readOnlyHint |-> TRUE, destructiveHint |-> FALSE, handler |-> getStatusPagePostHandler],
      [name |-> "list_status_page_post_updates", verb |-> "list", required |-> {"status_page_id", "post_id"},
       readOnlyHint |-> TRUE, destructiveHint |-> FALSE, handler |-> listStatusPagePostUpdatesHandler] }

RegisterStatusPageWriteTools ==
    { [name |-> "create_status_page_post", verb |-> "create", required |-> {"status_page_id", "post_type", "title"},
       readOnlyHint |-> FALSE, destructiveHint |-> FALSE, handler |-> createStatusPagePostHandler],
      [name |-> "create_status_page_post_update", verb |-> "create", required |-> {"status_page_id", "post_id", "message"},
       readOnlyHint |-> FALSE, destructiveHint |-> FALSE, handler |-> createStatusPagePostUpdateHandler] }

\* a plausible slip: get_team registered with the handler of delete_team
RegisterTeamReadToolsMisbound ==
    { [name |-> "list_teams", verb |-> "list", required |-> {},
       readOnlyHint |-> TRUE, destructiveHint |-> FALSE, handler |-> listTeamsHandler],
      [name |-> "get_team", verb |-> "get", required |-> {"team_id"},
       readOnlyHint |-> TRUE, destructiveHint |-> FALSE, handler |-> deleteTeamHandler],
      [name |-> "list_team_members", verb |-> "list", required |-> {"team_id"},
       readOnlyHint |-> TRUE, destructiveHint |-> FALSE, handler |-> listTeamMembersHandler] }

RegisterTeamReadTools ==
    { [name |-> "list_teams", verb |-> "list", required |-> {},
       readOnlyHint |-> TRUE, destructiveHint |-> FALSE, handler |-> listTeamsHandler],
      [name |-> "get_team", verb |-> "get", required |-> {"team_id"},
       readOnlyHint |-> TRUE, destructiveHint |-> FALSE, handler |-> getTeamHandler],
      [name |-> "list_team_members", verb |-> "list", required |-> {"team_id"},
       readOnlyHint |-> TRUE, destructiveHint |-> FALSE, handler |-> listTeamMembersHandler] }

\* a plausible slip: remove_team_member is registered without
\* mcp.WithDestructiveHintAnnotation(true)
RegisterTeamWriteToolsUnannotated ==
    { [name |-> "create_team", verb |-> "create", required |-> {"name"},
       readOnlyHint |-> FALSE, destructiveHint |-> FALSE, handler |-> createTeamHandler],
      [name |-> "update_team", verb |-> "update", required |-> {"team_id"},
       readOnlyHint |-> FALSE, destructiveHint |-> FALSE, handler |-> updateTeamHandler],
      [name |-> "delete_team", verb |-> "delete", required |-> {"team_id"},
       readOnlyHint |-> FALSE, destructiveHint |-> TRUE, handler |-> deleteTeamHandler],
      [name |-> "add_team_member", verb |-> "add", required |-> {"team_id", "user_id"},
       readOnlyHint |-> FALSE, destructiveHint |-> FALSE, handler |-> addTeamMemberHandler],
      [name |-> "remove_team_member", verb |-> "remove", required |-> {"team_id", "user_id"},
       readOnlyHint |-> FALSE, destructiveHint |-> FALSE, handler |-> removeTeamMemberHandler] }

RegisterTeamWriteTools ==
    { [name |-> "create_team", verb |-> "create", required |-> {"name"},
       readOnlyHint |-> FALSE, destructiveHint |-> FALSE, handler |-> createTeamHandler],
      [name |-> "update_team", verb |-> "update", required |-> {"team_id"},
       readOnlyHint |-> FALSE, destructiveHint |-> FALSE, handler |-> updateTeamHandler],
      [name |-> "delete_team", verb |-> "delete", required |-> {"team_id"},
       readOnlyHint |-> FALSE, destructiveHint |-> TRUE, handler |-> deleteTeamHandler],
      [name |-> "add_team_member", verb |-> "add", required |-> {"team_id", "user_id"},
       readOnlyHint |-> FALSE, destructiveHint |-> FALSE, handler |-> addTeamMemberHandler],
      [name |-> "remove_team_member", verb |-> "remove", required |-> {"team_id", "user_id"},
       readOnlyHint |-> FALSE, destructiveHint |-> TRUE, handler |-> removeTeamMemberHandler] }

RegisterEscalationPolicyReadTools ==
    { [name |-> "list_escalation_policies", verb |-> "list", required |-> {},
       readOnlyHint |-> TRUE, destructiveHint |-> FALSE, handler |-> listEscalationPoliciesHandler],
      [name |-> "get_escalation_policy", verb |-> "get", required |-> {"escalation_policy_id"},
       readOnlyHint |-> TRUE, destructiveHint |-> FALSE, handler |-> getEscalationPolicyHandler] }

RegisterUserReadTools ==
    { [name |-> "get_user_data", verb |-> "get", required |-> {},
       readOnlyHint |-> TRUE, destructiveHint |-> FALSE, handler |-> getUserDataHandler],
      [name |-> "list_users", verb |-> "list", required |-> {},
       readOnlyHint |-> TRUE, destructiveHint |-> FALSE, handler |-> listUsersHandler] }

RegisterEventOrchestrationReadTools ==
    { [name |-> "list_event_orchestrations", verb |-> "list", required |-> {},
       readOnlyHint |-> TRUE, destructiveHint |-> FALSE, handler |-> listEventOrchestrationsHandler],
      [name |-> "get_event_orchestration", verb |-> "get", required |-> {"orchestration_id"},
       readOnlyHint |-> TRUE, destructiveHint |-> FALSE, handler |-> getEventOrchestrationHandler],
      [name |-> "get_event_orchestration_router", verb |-> "get", required |-> {"orchestration_id"},
       readOnlyHint |-> TRUE, destructiveHint |-> FALSE, handler |-> getEventOrchestrationRouterHandler],
      [name |-> "get_event_orchestration_global", verb |-> "get", required |-> {"orchestration_id"},
       readOnlyHint |-> TRUE, destructiveHint |-> FALSE, handler |-> getEventOrchestrationGlobalHandler],
      [name |-> "get_event_orchestration_service", verb |-> "get", required |-> {"service_id"},
       readOnlyHint |-> TRUE, destructiveHint |-> FALSE, handler |-> getEventOrchestrationServiceHandler] }

RegisterEventOrchestrationWriteTools ==
    { [name |-> "update_event_orchestration_router", verb |-> "update", required |-> {"orchestration_id", "config"},
       readOnlyHint |-> FALSE, destructiveHint |-> FALSE, handler |-> updateEventOrchestrationRouterHandler],
      [name |-> "append_event_orchestration_router_rule", verb |-> "append", required |-> {"orchestration_id", "route_to"},
       readOnlyHint |-> FALSE, destructiveHint |-> FALSE, handler |-> appendEventOrchestrationRouterRuleHandler] }

(***************************************************************************)
(* Composition: server.New and the two registrar groups.                   *)
(***************************************************************************)
registerReadTools ==
    RegisterIncidentReadTools \cup RegisterServiceReadTools
      \cup RegisterTeamReadTools \cup RegisterUserReadTools
      \cup RegisterScheduleReadTools \cup RegisterOncallReadTools
      \cup RegisterEscalationPolicyReadTools
      \cup RegisterEventOrchestrationReadTools
      \cup RegisterIncidentWorkflowReadTools
      \cup RegisterChangeEventReadTools
      \cup RegisterAlertGroupingReadTools \cup RegisterStatusPageReadTools

registerWriteTools ==
    RegisterIncidentWriteTools \cup RegisterServiceWriteTools
      \cup RegisterTeamWriteTools \cup RegisterScheduleWriteTools
      \cup RegisterEventOrchestrationWriteTools
      \cup RegisterIncidentWorkflowWriteTools
      \cup RegisterAlertGroupingWriteTools \cup RegisterStatusPageWriteTools

\* a plausible slip: the write registrars run whatever the flag says
NewIgnoringFlag(c) ==
    [tools |-> registerReadTools \cup registerWriteTools]

New(c) ==
    [tools |-> registerReadTools
                 \cup (IF c.EnableWriteTools THEN registerWriteTools ELSE {})]

NewClient(apiKey) == [apiKey |-> apiKey]

(***************************************************************************)
(* Call arguments: a map from keys to JSON values.  A value is a string    *)
(* (possibly empty) or a number.                                           *)
(***************************************************************************)
StringValue(s) == [type |-> "string", v |-> s]
\* a JSON number, the float64 Go decodes it to, counted in tenths (15 is 1.5)
NumberValue(n) == [type |-> "number", n |-> n]

\* a JSON boolean
BoolValue(b) == [type |-> "bool", b |-> b]

\* a plausible slip: the emptiness test is left out
getStringAllowEmpty(args, key) ==
    IF key \in DOMAIN args /\ args[key].type = "string"
    THEN <<args[key].v, TRUE>>
    ELSE <<"", FALSE>>

\* tools/utils.go getString: <<value, ok>>
getString(args, key) ==
    IF key \in DOMAIN args /\ args[key].type = "string" /\ args[key].v # ""
    THEN <<args[key].v, TRUE>>
    ELSE <<"", FALSE>>

\* tools/utils.go getNumber: <<value in tenths, ok>>
getNumber(args, key) ==
    IF key \in DOMAIN args /\ args[key].type = "number"
    THEN <<args[key].n, TRUE>>
    ELSE <<0, FALSE>>

\* tools/utils.go getBool: <<value, ok>>
getBool(args, key) ==
    IF key \in DOMAIN args /\ args[key].type = "bool"
    THEN <<args[key].b, TRUE>>
    ELSE <<FALSE, FALSE>>

\* Go's int(v) of a float64: the fraction is dropped, toward zero
int(v) == IF v >= 0 THEN v \div 10 ELSE -((-v) \div 10)

(***************************************************************************)
(* Strings read character by character.                                    *)
(***************************************************************************)
RECURSIVE Str(_)
\* the string spelled by a sequence of characters
Str(q) == IF q = <<>> THEN "" ELSE Head(q) \o Str(Tail(q))

\* the texts a comma-separated list argument is drawn from
ListTexts ==
    UNION {[1..n -> {"A", "B", ",", " "}] : n \in 0..MaxLen} \cup {<<"P", "X", "1">>}

RECURSIVE Split(_)
\* strings.Split(s, ",")
Split(q) ==
    IF \A i \in 1..Len(q) : q[i] # ","
    THEN <<q>>
    ELSE LET i == CHOOSE j \in 1..Len(q) :
                      q[j] = "," /\ \A k \in 1..(j - 1) : q[k] # ","
         IN  <<SubSeq(q, 1, i - 1)>> \o Split(SubSeq(q, i + 1, Len(q)))

RECURSIVE TrimSpace(_)
\* strings.TrimSpace
TrimSpace(q) ==
    IF q # <<>> /\ Head(q) = " " THEN TrimSpace(Tail(q))
    ELSE IF q # <<>> /\ q[Len(q)] = " " THEN TrimSpace(SubSeq(q, 1, Len(q) - 1))
    ELSE q

\* a plausible slip: the parts that are blank are kept
splitAndTrimKeepBlank(s) ==
    LET chars == CHOOSE q \in ListTexts : Str(q) = s
        parts == Split(chars)
    IN  [i \in 1..Len(parts) |-> Str(TrimSpace(parts[i]))]

\* tools/utils.go splitAndTrim: the non-empty trimmed parts, in order
splitAndTrim(s) ==
    LET chars == CHOOSE q \in ListTexts : Str(q) = s
        parts == Split(chars)
        trimmed == [i \in 1..Len(parts) |-> Str(TrimSpace(parts[i]))]
        keep(x) == x # ""
    IN  SelectSeq(trimmed, keep)

(***************************************************************************)
(* Credential resolution in the backend gateway.                           *)
(***************************************************************************)
\* context.Background(): a context that carries no value
Background == [hasToken |-> FALSE, token |-> ""]

\* context.WithValue(ctx, PagerDutyTokenKey, pdToken)
WithToken(ctx, pdToken) == [ctx EXCEPT !.hasToken = TRUE, !.token = pdToken]

\* auth.GetPagerDutyToken: <<token, ok>>
GetPagerDutyToken(ctx) == <<IF ctx.hasToken THEN ctx.token ELSE "", ctx.hasToken>>

\* a plausible slip: an empty override token is not told from a missing one
getAPIKeyAnyToken(c, ctx) ==
    IF GetPagerDutyToken(ctx)[2]
    THEN GetPagerDutyToken(ctx)[1]
    ELSE c.apiKey

getAPIKey(c, ctx) ==
    IF GetPagerDutyToken(ctx)[2] /\ GetPagerDutyToken(ctx)[1] # ""
    THEN GetPagerDutyToken(ctx)[1]
    ELSE c.apiKey

\* the request the gateway sends: method, URL, JSON body, and the
\* Authorization header built from the resolved credential; path and query
\* are what the caller handed to the gateway
doRequestWithContext(c, ctx, method, out) ==
    [method |-> method, cred |-> getAPIKey(c, ctx),
     authorization |-> "Token token=" \o getAPIKey(c, ctx),
     path |-> out.path, query |-> out.query, url |-> out.url, body |-> out.body]

\* a plausible slip: the gateway resolves the credential from a context
\* shared by the requests in flight instead of a fresh background context
doRequestSharedContext(c, method, out) ==
    LET holders == {s \in DOMAIN conn : conn[s].pc # "idle" /\ conn[s].ctx.hasToken}
    IN  IF holders = {}
        THEN doRequestWithContext(c, Background, method, out)
        ELSE doRequestWithContext(c, conn[CHOOSE s \in holders : TRUE].ctx, method, out)

doRequest(c, method, out) == doRequestWithContext(c, Background, method, out)

\* client.go buildURL: the path and the url.Values it encodes into the query
\* string, each parameter added once with its value as it is.  Encode
\* percent-escapes keys and values; the values are held here as the
\* receiver decodes them.
buildURL(path, params) ==
    [path |-> path, values |-> [k \in DOMAIN params |-> <<params[k]>>]]

\* Get/GetJSON, Post/PostJSON, Put/PutJSON, Delete
Gateway(c, method, out) ==
    doRequest(c, method,
              [path |-> out.path, query |-> out.query, body |-> out.body,
               url |-> buildURL(out.path, out.query)])

(***************************************************************************)
(* Documents on the wire.                                                  *)
(***************************************************************************)
\* the zero value of models.EventOrchestrationRouter; its CatchAll is a nil
\* *EventOrchestrationCatchAll
EmptyPath ==
    [id |-> "", type |-> "", sets |-> <<>>,
     catch_all |-> [present |-> FALSE, route_to |-> ""]]

\* a response body: its text, whether json.Unmarshal accepts it, and the
\* orchestration_path it then yields
Body(text, valid, path) == [text |-> text, valid |-> valid, path |-> path]
NoBody == Body("", FALSE, EmptyPath)

\* a plausible slip: the threshold is set at 500, so 4xx answers pass
doRequestWithContextReturnServerErrorsOnly(resp) ==
    IF resp.failed
    THEN [err |-> "request failed", data |-> NoBody]
    ELSE IF resp.status >= 500
    THEN [err |-> "API error (status " \o ToString(resp.status) \o "): "
                     \o resp.body.text,
          data |-> NoBody]
    ELSE [err |-> "", data |-> resp.body]

\* what doRequestWithContext returns once httpClient.Do has returned:
\* err is "" for a nil error
doRequestWithContextReturn(resp) ==
    IF resp.failed
    THEN [err |-> "request failed", data |-> NoBody]
    ELSE IF resp.status >= 400
    THEN [err |-> "API error (status " \o ToString(resp.status) \o "): "
                     \o resp.body.text,
          data |-> NoBody]
    ELSE [err |-> "", data |-> resp.body]

\* GetJSON/PostJSON/PutJSON: the gateway's error, else json.Unmarshal's
UnmarshalReturn(ret) ==
    IF ret.err # "" THEN ret
    ELSE IF ret.data.valid THEN ret
    ELSE [err |-> "invalid character", data |-> NoBody]

(***************************************************************************)
(* Requests and responses.                                                 *)
(***************************************************************************)
Idle == [pc |-> "idle"]

NoResponse ==
    [status |-> 0, kind |-> "none", error |-> "", id |-> 0,
     rpcError |-> FALSE, isError |-> FALSE, text |-> "", tools |-> {},
     serverName |-> "", healthStatus |-> "", version |-> ""]

EmptyArgs == [p \in {} |-> StringValue("")]

\* a request as the front door receives it; ctx is the request's own
\* context (r.Context()), which carries no value until the middleware adds one.
\* calls are the gateway requests the handler sent, answers what the backend
\* replied, returns what the gateway handed back, fetched the router the
\* append handler read
NewRequest(transport, httpMethod, path, authorization, pdToken, bodyOk, rpc) ==
    [pc |-> "accepted", transport |-> transport, httpMethod |-> httpMethod,
     path |-> path, authorization |-> authorization, pdToken |-> pdToken,
     bodyOk |-> bodyOk, rpc |-> rpc, ctx |-> Background, authCalls |-> 0,
     authResult |-> [authorized |-> FALSE, err |-> FALSE],
     dispatched |-> FALSE, handlerRan |-> FALSE, pending |-> <<>>,
     calls |-> <<>>, answers |-> <<>>, returns |-> <<>>,
     fetched |-> EmptyPath, response |-> NoResponse]

\* http.Error(w, `{"error":"<msg>"}`, code)
httpError(r, msg, code) ==
    [r EXCEPT !.pc = "done",
              !.response = [NoResponse EXCEPT !.status = code,
                                              !.kind = "http_error",
                                              !.error = msg]]

\* the response to a JSON-RPC message is written: with status 200 by
\* handleJSONRPC, as a line on stdout by the stdio front door
Reply(r, message) ==
    [r EXCEPT !.pc = "done",
              !.response = [message EXCEPT
                  !.status = IF r.transport = "http" THEN StatusOK ELSE 0]]

JSONRPCResponse(id) == [NoResponse EXCEPT !.kind = "jsonrpc", !.id = id]

\* a tools/call result: mcp.NewToolResultText / mcp.NewToolResultError, which
\* the handler returns together with a nil error
ToolResult(r, isError, text) ==
    Reply(r, [JSONRPCResponse(r.rpc.id) EXCEPT !.isError = isError, !.text = text])

(***************************************************************************)
(* Tool handlers.                                                          *)
(***************************************************************************)
\* json.Unmarshal succeeds on the text
ValidJSON(s) == s \in {"{}"}

\* index of the first required argument getString rejects, 0 if none
FirstMissing(h, args) ==
    LET bad == {i \in 1..Len(h.checks) : ~getString(args, h.checks[i])[2]}
    IN  IF bad = {} THEN 0 ELSE CHOOSE i \in bad : \A j \in bad : i <= j

RECURSIVE Sprintf(_, _)
\* fmt.Sprintf on a path: literal text alternating with the %s arguments,
\* each the string the handler read from the named call argument
Sprintf(parts, args) ==
    IF parts = <<>> THEN ""
    ELSE IF Len(parts) = 1 THEN parts[1]
    ELSE parts[1] \o getString(args, parts[2])[1]
           \o Sprintf(SubSeq(parts, 3, Len(parts)), args)

\* the nil params map, and the payload of the handlers that are not
\* modelled in detail
NoParams == [k \in {} |-> ""]
NoPayload == [kind |-> "payload"]

\* a plausible slip: a limit outside 1..100 is brought into the range
queryParamsClamped(h, args) ==
    LET present(q) ==
            CASE q[3] = "string" -> getString(args, q[1])[2]
              [] q[3] = "number" -> getNumber(args, q[1])[2]
              [] q[3] = "bool" -> getBool(args, q[1])[2] /\ getBool(args, q[1])[1]
        set == {q \in {h.query[i] : i \in 1..Len(h.query)} : present(q)}
        clamp(n) == IF n < 1 THEN 1 ELSE IF n > 100 THEN 100 ELSE n
    IN  [k \in {q[2] : q \in set} |->
            LET q == CHOOSE x \in set : x[2] = k
            IN  CASE q[3] = "string" -> getString(args, q[1])[1]
                  [] q[3] = "number" -> ToString(clamp(int(getNumber(args, q[1])[1])))
                  [] q[3] = "bool" -> "true"]

\* a plausible slip: the parameter is sent under the name of the argument
queryParamsBareKey(h, args) ==
    LET present(q) ==
            CASE q[3] = "string" -> getString(args, q[1])[2]
              [] q[3] = "number" -> getNumber(args, q[1])[2]
              [] q[3] = "bool" -> getBool(args, q[1])[2] /\ getBool(args, q[1])[1]
        set == {q \in {h.query[i] : i \in 1..Len(h.query)} : present(q)}
    IN  [k \in {q[1] : q \in set} |->
            LET q == CHOOSE x \in set : x[1] = k
            IN  CASE q[3] = "string" -> getString(args, q[1])[1]
                  [] q[3] = "number" -> ToString(int(getNumber(args, q[1])[1]))
                  [] q[3] = "bool" -> "true"]

\* the params map a handler builds: for each entry of its query table whose
\* argument getString, getNumber or getBool accepts (a bool only when true),
\* the key with the string as it is, fmt.Sprintf("%d", int(v)), or "true"
queryParams(h, args) ==
    LET present(q) ==
            CASE q[3] = "string" -> getString(args, q[1])[2]
              [] q[3] = "number" -> getNumber(args, q[1])[2]
              [] q[3] = "bool" -> getBool(args, q[1])[2] /\ getBool(args, q[1])[1]
        set == {q \in {h.query[i] : i \in 1..Len(h.query)} : present(q)}
    IN  [k \in {q[2] : q \in set} |->
            LET q == CHOOSE x \in set : x[2] = k
            IN  CASE q[3] = "string" -> getString(args, q[1])[1]
                  [] q[3] = "number" -> ToString(int(getNumber(args, q[1])[1]))
                  [] q[3] = "bool" -> "true"]

\* incidents.go listIncidentsHandler: the query parameters it builds
listIncidentsParams(args) ==
    LET forwarded == {<<"statuses", "statuses[]">>, <<"date_range", "date_range">>,
                      <<"since", "since">>, <<"until", "until">>,
                      <<"urgencies", "urgencies[]">>}
        set == {f \in forwarded : getString(args, f[1])[2]}
        keys == {f[2] : f \in set}
                  \cup (IF getNumber(args, "limit")[2] THEN {"limit"} ELSE {})
    IN  [k \in keys |->
            IF k = "limit"
            THEN ToString(int(getNumber(args, "limit")[1]))
            ELSE getString(args, (CHOOSE f \in set : f[2] = k)[1])[1]]

\* incidents.go manageIncidentsHandler: the IncidentManageRequest it fills;
\* Assignment "" is the nil pointer
IncidentManageRequest(args) ==
    [IncidentIDs |-> splitAndTrim(getString(args, "incident_ids")[1]),
     Status |-> getString(args, "status")[1],
     Urgency |-> getString(args, "urgency")[1],
     Assignment |-> getString(args, "assignee_id")[1],
     EscalationLevel |-> IF getNumber(args, "escalation_level")[2]
                         THEN int(getNumber(args, "escalation_level")[1])
                         ELSE 0]

\* a plausible slip: every entry refers to the first incident
ToAPIPayloadFirstId(r) ==
    [i \in 1..Len(r.IncidentIDs) |->
        LET keys == {"type", "id"}
                      \cup (IF r.Status # "" THEN {"status"} ELSE {})
                      \cup (IF r.Urgency # "" THEN {"urgency"} ELSE {})
                      \cup (IF r.EscalationLevel > 0 THEN {"escalation_level"} ELSE {})
                      \cup (IF r.Assignment # "" THEN {"assignments"} ELSE {})
        IN  [k \in keys |->
                CASE k = "type" -> StringValue("incident_reference")
                  [] k = "id" -> StringValue(r.IncidentIDs[1])
                  [] k = "status" -> StringValue(r.Status)
                  [] k = "urgency" -> StringValue(r.Urgency)
                  [] k = "escalation_level" -> NumberValue(10 * r.EscalationLevel)
                  [] k = "assignments" -> StringValue(r.Assignment)]]

\* models/incidents.go ToAPIPayload: the "incidents" array, one entry per ID;
\* an assignments member is held as its assignee's id (its "at" timestamp is
\* left out)
ToAPIPayload(r) ==
    [i \in 1..Len(r.IncidentIDs) |->
        LET keys == {"type", "id"}
                      \cup (IF r.Status # "" THEN {"status"} ELSE {})
                      \cup (IF r.Urgency # "" THEN {"urgency"} ELSE {})
                      \cup (IF r.EscalationLevel > 0 THEN {"escalation_level"} ELSE {})
                      \cup (IF r.Assignment # "" THEN {"assignments"} ELSE {})
        IN  [k \in keys |->
                CASE k = "type" -> StringValue("incident_reference")
                  [] k = "id" -> StringValue(r.IncidentIDs[i])
                  [] k = "status" -> StringValue(r.Status)
                  [] k = "urgency" -> StringValue(r.Urgency)
                  [] k = "escalation_level" -> NumberValue(10 * r.EscalationLevel)
                  [] k = "assignments" -> StringValue(r.Assignment)]]

\* the condition list json.Unmarshal reads from the conditions argument
UnmarshalConditions(s) ==
    CASE s = "[{\"expression\":\"event.summary matches 'db'\"}]" ->
             [ok |-> TRUE, value |-> <<"event.summary matches 'db'">>]
      [] s = "[]" -> [ok |-> TRUE, value |-> <<>>]
      [] OTHER -> [ok |-> FALSE, value |-> <<>>]

\* the EventOrchestrationRule the append handler builds
newRule(args) ==
    [id |-> "",
     label |-> getString(args, "label")[1],
     conditions |-> IF getString(args, "conditions")[2]
                    THEN UnmarshalConditions(getString(args, "conditions")[1]).value
                    ELSE <<>>,
     route_to |-> getString(args, "route_to")[1]]

\* a plausible slip: a router without rule sets is given one for the rule
updateReqCreateSet(currentResp, rule) ==
    [sets |-> IF Len(currentResp.sets) > 0
              THEN [currentResp.sets EXCEPT ![1].rules = Append(@, rule)]
              ELSE <<[id |-> "start", rules |-> <<rule>>]>>,
     catch_all |-> currentResp.catch_all]

\* a plausible slip: the new rule is put in front of the fetched rules
updateReqPrepend(currentResp, rule) ==
    [sets |-> IF Len(currentResp.sets) > 0
              THEN [currentResp.sets EXCEPT ![1].rules = <<rule>> \o @]
              ELSE currentResp.sets,
     catch_all |-> currentResp.catch_all]

\* part_005 appendEventOrchestrationRouterRuleHandler: the update request
\* built from the fetched router and the new rule
updateReq(currentResp, rule) ==
    [sets |-> IF Len(currentResp.sets) > 0
              THEN [currentResp.sets EXCEPT ![1].rules = Append(@, rule)]
              ELSE currentResp.sets,
     catch_all |-> currentResp.catch_all]

\* the body of the handler's k-th gateway call
Payload(h, r, k) ==
    CASE h.fn = "manageIncidentsHandler" ->
             ToAPIPayload(IncidentManageRequest(r.rpc.args))
      [] h.fn = "appendEventOrchestrationRouterRuleHandler" /\ k = 2 ->
             updateReq(r.fetched, newRule(r.rpc.args))
      [] h.fn = "updateEventOrchestrationRouterHandler" ->
             [sets |-> EmptyPath.sets, catch_all |-> EmptyPath.catch_all]
      [] OTHER -> NoPayload

\* the handler's k-th gateway request: path, query parameters and body
Outgoing(h, r, k) ==
    [path |-> Sprintf(h.paths[k], r.rpc.args),
     query |-> IF h.fn = "listIncidentsHandler"
               THEN listIncidentsParams(r.rpc.args)
               ELSE queryParams(h, r.rpc.args),
     body |-> Payload(h, r, k)]

\* the handler sends its next gateway call and blocks on the round trip
IssueCall(c, h, r) ==
    LET k == Len(r.calls) + 1
    IN  [r EXCEPT !.calls = Append(@, Gateway(c, h.calls[k], Outgoing(h, r, k))),
                  !.pending = SubSeq(h.calls, k + 1, Len(h.calls)),
                  !.pc = "waiting"]

\* a handler closure func(ctx, request), c captured at registration: the
\* required checks in order, the JSON parse, then the first gateway call.
\* ctx is received and not passed on to the gateway.
ToolHandler(c, ctx, h, r) ==
    LET r1 == [r EXCEPT !.handlerRan = TRUE]
        i == FirstMissing(h, r.rpc.args)
    IN  IF i # 0
        THEN ToolResult(r1, TRUE, h.checks[i] \o " is required")
        ELSE IF h.parse # "" /\ ~ValidJSON(getString(r.rpc.args, h.parse)[1])
        THEN ToolResult(r1, TRUE, "invalid " \o h.parse \o " JSON")
        ELSE IssueCall(c, h, r1)

\* a plausible slip: the conditions argument is not parsed before the PUT
ToolHandlerResumeNoParse(c, h, r, resp) ==
    LET k == Len(r.calls)
        ret == IF h.raw THEN doRequestWithContextReturn(resp)
               ELSE UnmarshalReturn(doRequestWithContextReturn(resp))
        r1 == [r EXCEPT !.answers = Append(@, resp),
                        !.returns = Append(@, doRequestWithContextReturn(resp))]
        append == h.fn = "appendEventOrchestrationRouterRuleHandler" /\ k = 1
    IN  IF ret.err # ""
        THEN ToolResult(r1, TRUE,
                 IF append THEN "failed to get current router: " \o ret.err
                 ELSE ret.err)
        ELSE IF r.pending # <<>>
        THEN IssueCall(c, h, [r1 EXCEPT !.fetched = ret.data.path])
        ELSE ToolResult(r1, FALSE,
                 IF h.raw /\ h.calls = <<"POST">> THEN ret.data.text ELSE "ok")

\* a plausible slip: a failed gateway call is tried once more
ToolHandlerResumeRetry(c, h, r, resp) ==
    LET ret == IF h.raw THEN doRequestWithContextReturn(resp)
               ELSE UnmarshalReturn(doRequestWithContextReturn(resp))
        r1 == [r EXCEPT !.answers = Append(@, resp),
                        !.returns = Append(@, doRequestWithContextReturn(resp))]
    IN  IF ret.err # "" /\ Len(r.answers) < Len(r.calls)
        THEN [r1 EXCEPT !.calls = Append(@, r.calls[Len(r.calls)])]
        ELSE IF ret.err # ""
        THEN ToolResult(r1, TRUE, ret.err)
        ELSE IF r.pending # <<>>
        THEN IssueCall(c, h, [r1 EXCEPT !.fetched = ret.data.path])
        ELSE ToolResult(r1, FALSE,
                 IF h.raw /\ h.calls = <<"POST">> THEN ret.data.text ELSE "ok")

\* the handler after its gateway call returned: every handler answers a
\* gateway error with NewToolResultError(err.Error()) and a nil error, the
\* append handler prefixing its GET's; the append handler then parses its
\* conditions argument before the PUT.  On success the result text is the
\* body for the raw POST and is otherwise derived from the decoded answer.
ToolHandlerResume(c, h, r, resp) ==
    LET k == Len(r.calls)
        ret == IF h.raw THEN doRequestWithContextReturn(resp)
               ELSE UnmarshalReturn(doRequestWithContextReturn(resp))
        r1 == [r EXCEPT !.answers = Append(@, resp),
                        !.returns = Append(@, doRequestWithContextReturn(resp))]
        append == h.fn = "appendEventOrchestrationRouterRuleHandler" /\ k = 1
    IN  IF ret.err # ""
        THEN ToolResult(r1, TRUE,
                 IF append THEN "failed to get current router: " \o ret.err
                 ELSE ret.err)
        ELSE IF append /\ getString(r.rpc.args, "conditions")[2]
                /\ ~UnmarshalConditions(getString(r.rpc.args, "conditions")[1]).ok
        THEN ToolResult(r1, TRUE, "invalid conditions JSON")
        ELSE IF r.pending # <<>>
        THEN IssueCall(c, h, [r1 EXCEPT !.fetched = ret.data.path])
        ELSE ToolResult(r1, FALSE,
                 IF h.raw /\ h.calls = <<"POST">> THEN ret.data.text ELSE "ok")

(***************************************************************************)
(* Pagination: client.go PaginateWithContext.  A walk is held in a slot    *)
(* like a request: calls are its GETs, answers and returns what came back, *)
(* callbacks the caller's handler invocations with the data each was given *)
(* and the count and error it returned, err the error the walk returned    *)
(* ("" for nil) once pc is "done".                                         *)
(***************************************************************************)
\* the top of the loop: offset and limit are written into params and the
\* page is requested with GetWithContext
FetchPage(c, w) ==
    LET params == [k \in DOMAIN w.params \cup {"offset", "limit"} |->
                      CASE k = "offset" -> ToString(w.offset)
                        [] k = "limit" -> ToString(w.limit)
                        [] OTHER -> w.params[k]]
    IN  [w EXCEPT !.params = params,
                  !.calls = Append(@, doRequestWithContext(c, w.ctx, "GET",
                                         [path |-> w.path, query |-> params,
                                          url |-> buildURL(w.path, params),
                                          body |-> NoPayload])),
                  !.pc = "waiting"]

\* a plausible slip: the offset advances by the number of results handled
PaginateResumeByCount(c, w, resp, cb) ==
    LET ret == doRequestWithContextReturn(resp)
        w1 == [w EXCEPT !.answers = Append(@, resp), !.returns = Append(@, ret)]
        w2 == [w1 EXCEPT !.callbacks = Append(@, [data |-> ret.data, count |-> cb.count,
                                                  err |-> cb.err])]
        totalFetched == w.totalFetched + cb.count
        w3 == [w2 EXCEPT !.totalFetched = totalFetched]
    IN  IF ret.err # "" THEN [w1 EXCEPT !.pc = "done", !.err = ret.err]
        ELSE IF cb.err # "" THEN [w2 EXCEPT !.pc = "done", !.err = cb.err]
        ELSE IF w.maxResults > 0 /\ totalFetched >= w.maxResults
        THEN [w3 EXCEPT !.pc = "done"]
        ELSE IF ~ret.data.valid THEN [w3 EXCEPT !.pc = "done"]
        ELSE IF ~ret.data.more THEN [w3 EXCEPT !.pc = "done"]
        ELSE FetchPage(c, [w3 EXCEPT !.offset = @ + cb.count])

\* a plausible slip: the walk gives up after two pages
PaginateResumeCapped(c, w, resp, cb) ==
    LET ret == doRequestWithContextReturn(resp)
        w1 == [w EXCEPT !.answers = Append(@, resp), !.returns = Append(@, ret)]
        w2 == [w1 EXCEPT !.callbacks = Append(@, [data |-> ret.data, count |-> cb.count,
                                                  err |-> cb.err])]
        totalFetched == w.totalFetched + cb.count
        w3 == [w2 EXCEPT !.totalFetched = totalFetched]
    IN  IF ret.err # "" THEN [w1 EXCEPT !.pc = "done", !.err = ret.err]
        ELSE IF cb.err # "" THEN [w2 EXCEPT !.pc = "done", !.err = cb.err]
        ELSE IF w.maxResults > 0 /\ totalFetched >= w.maxResults
        THEN [w3 EXCEPT !.pc = "done"]
        ELSE IF ~ret.data.valid THEN [w3 EXCEPT !.pc = "done"]
        ELSE IF ~ret.data.more THEN [w3 EXCEPT !.pc = "done"]
        ELSE IF Len(w.calls) >= 2 THEN [w3 EXCEPT !.pc = "done"]
        ELSE FetchPage(c, [w3 EXCEPT !.offset = @ + w.limit])

\* the rest of the loop body once GetWithContext has returned: the GET's
\* error is returned; else the handler is called with the data and its
\* error returned; else its count is added to totalFetched and the walk
\* ends with nil when maxResults > 0 is reached, when the data does not
\* unmarshal into a PaginatedResponse, or when More is false; else the
\* offset advances by limit and the loop starts over.  cb is what the
\* caller's handler returns for this page.
PaginateResume(c, w, resp, cb) ==
    LET ret == doRequestWithContextReturn(resp)
        w1 == [w EXCEPT !.answers = Append(@, resp), !.returns = Append(@, ret)]
        w2 == [w1 EXCEPT !.callbacks = Append(@, [data |-> ret.data, count |-> cb.count,
                                                  err |-> cb.err])]
        totalFetched == w.totalFetched + cb.count
        w3 == [w2 EXCEPT !.totalFetched = totalFetched]
    IN  IF ret.err # "" THEN [w1 EXCEPT !.pc = "done", !.err = ret.err]
        ELSE IF cb.err # "" THEN [w2 EXCEPT !.pc = "done", !.err = cb.err]
        ELSE IF w.maxResults > 0 /\ totalFetched >= w.maxResults
        THEN [w3 EXCEPT !.pc = "done"]
        ELSE IF ~ret.data.valid THEN [w3 EXCEPT !.pc = "done"]
        ELSE IF ~ret.data.more THEN [w3 EXCEPT !.pc = "done"]
        ELSE FetchPage(c, [w3 EXCEPT !.offset = @ + w.limit])

(***************************************************************************)
(* Dispatch core: MCPServer.HandleMessage.                                 *)
(***************************************************************************)
ToolNames(srv) == {t.name : t \in srv.tools}

HandleMessage(srv, c, r) ==
    LET r1 == [r EXCEPT !.dispatched = TRUE]
        m == r.rpc
    IN  CASE m.method = "initialize" ->
               Reply(r1, [JSONRPCResponse(m.id) EXCEPT
                              !.serverName = ServerName,
                              !.version = ServerVersion])
          [] m.method = "tools/list" ->
               Reply(r1, [JSONRPCResponse(m.id) EXCEPT !.tools = ToolNames(srv)])
          [] m.method = "tools/call" ->
               IF m.tool \notin ToolNames(srv)
               THEN Reply(r1, [JSONRPCResponse(m.id) EXCEPT
                                   !.rpcError = TRUE,
                                   !.error = "tool not found"])
               ELSE ToolHandler(c, r1.ctx,
                        (CHOOSE t \in srv.tools : t.name = m.tool).handler, r1)

(***************************************************************************)
(* HTTP front door.                                                        *)
(***************************************************************************)
handleHealth(r) ==
    IF r.httpMethod # "GET"
    THEN httpError(r, "Method not allowed", StatusMethodNotAllowed)
    ELSE [r EXCEPT !.pc = "done",
                   !.response = [NoResponse EXCEPT !.status = StatusOK,
                                                   !.kind = "health",
                                                   !.healthStatus = "ok",
                                                   !.version = ServerVersion]]

\* a plausible slip: the method test copied from handleHealth
handleJSONRPCGetOnly(srv, c, r) ==
    IF r.httpMethod # "GET"
    THEN httpError(r, "Method not allowed", StatusMethodNotAllowed)
    ELSE IF ~r.bodyOk
    THEN httpError(r, "Failed to read request body", StatusBadRequest)
    ELSE HandleMessage(srv, c, r)

handleJSONRPC(srv, c, r) ==
    IF r.httpMethod # "POST"
    THEN httpError(r, "Method not allowed", StatusMethodNotAllowed)
    ELSE IF ~r.bodyOk
    THEN httpError(r, "Failed to read request body", StatusBadRequest)
    ELSE HandleMessage(srv, c, r)

\* http.ServeMux with the patterns "/health" and "/"
mux(srv, c, r) ==
    IF r.path = "/health" THEN handleHealth(r) ELSE handleJSONRPC(srv, c, r)

\* Authorizer.Authorize: the (authorized, err) pairs an implementation returns
Authorize(a) ==
    IF a = "MockAuthorizer"
    THEN {[authorized |-> TRUE, err |-> FALSE]}
    ELSE [authorized : BOOLEAN, err : BOOLEAN]

\* a plausible slip: the override token is put in the context before the
\* authorizer is asked
AuthorizedInjectFirst(srv, c, r, outcome) ==
    LET r1 == [r EXCEPT !.authCalls = @ + 1, !.authResult = outcome,
                        !.ctx = IF r.pdToken # "" THEN WithToken(@, r.pdToken) ELSE @]
    IN  IF outcome.err
        THEN httpError(r1, "Authorization failed", StatusInternalServerError)
        ELSE IF ~outcome.authorized
        THEN httpError(r1, "Unauthorized", StatusUnauthorized)
        ELSE mux(srv, c, r1)

\* the part of the middleware after the Authorization header was found
Authorized(srv, c, r, outcome) ==
    LET r1 == [r EXCEPT !.authCalls = @ + 1, !.authResult = outcome]
    IN  IF outcome.err
        THEN httpError(r1, "Authorization failed", StatusInternalServerError)
        ELSE IF ~outcome.authorized
        THEN httpError(r1, "Unauthorized", StatusUnauthorized)
        ELSE mux(srv, c,
                 [r1 EXCEPT !.ctx = IF r.pdToken # ""
                                    THEN WithToken(@, r.pdToken)
                                    ELSE @])

\* a plausible slip: the header presence test is left out
MiddlewareNoHeaderCheck(srv, c, r, outcome) ==
    IF r.path = "/health" THEN mux(srv, c, r)
    ELSE Authorized(srv, c, r, outcome)

\* a plausible slip: the health endpoint is not exempted
MiddlewareNoHealthSkip(srv, c, r, outcome) ==
    IF r.authorization = ""
    THEN httpError(r, "Authorization header required", StatusUnauthorized)
    ELSE Authorized(srv, c, r, outcome)

\* a plausible slip: the verdict is tested before the error
MiddlewareVerdictFirst(srv, c, r, outcome) ==
    IF r.path = "/health" THEN mux(srv, c, r)
    ELSE IF r.authorization = ""
    THEN httpError(r, "Authorization header required", StatusUnauthorized)
    ELSE LET r1 == [r EXCEPT !.authCalls = @ + 1, !.authResult = outcome]
         IN  IF ~outcome.authorized
             THEN httpError(r1, "Unauthorized", StatusUnauthorized)
             ELSE IF outcome.err
             THEN httpError(r1, "Authorization failed", StatusInternalServerError)
             ELSE mux(srv, c,
                      [r1 EXCEPT !.ctx = IF r.pdToken # ""
                                         THEN WithToken(@, r.pdToken)
                                         ELSE @])

\* a plausible slip: the exemption is given to every path under /health
MiddlewareHealthPrefix(srv, c, r, outcome) ==
    IF r.path \in {"/health", "/health/"} THEN mux(srv, c, r)
    ELSE IF r.authorization = ""
    THEN httpError(r, "Authorization header required", StatusUnauthorized)
    ELSE Authorized(srv, c, r, outcome)

\* auth.Middleware(authorizer)(next); outcome is what Authorize returns if
\* it is called
Middleware(srv, c, r, outcome) ==
    IF r.path = "/health" THEN mux(srv, c, r)
    ELSE IF r.authorization = ""
    THEN httpError(r, "Authorization header required", StatusUnauthorized)
    ELSE Authorized(srv, c, r, outcome)

\* the handler RunHTTP installs
RunHTTP(srv, c, a, r, outcome) ==
    IF a # "nil" THEN Middleware(srv, c, r, outcome) ELSE mux(srv, c, r)

(***************************************************************************)
(* Inputs.                                                                 *)
(***************************************************************************)
AllTools == registerReadTools \cup registerWriteTools

\* tool names a client may send: every tool of the repository, registered or
\* not, and a name no registrar knows
CallableNames == {t.name : t \in AllTools} \cup {"no_such_tool"}

RequiredOf(name) ==
    IF \E t \in AllTools : t.name = name
    THEN (CHOOSE t \in AllTools : t.name = name).required
    ELSE {}

ArgValues(p) ==
    {StringValue(""), StringValue("PX1"), NumberValue(70)}
      \cup (IF p = "config" THEN {StringValue("{}")} ELSE {})

\* argument maps over the keys in params: each key absent, or present with an
\* empty string, a non-empty string or a number.  Calls supply keys among the
\* tool's required parameters; optional parameters are left out.
ArgMaps(params) ==
    UNION { {a \in [S -> UNION {ArgValues(p) : p \in params}] :
                \A p \in S : a[p] \in ArgValues(p)} : S \in SUBSET params }

\* the argument map that supplies every key in params with a usable string
GoodArgs(params) ==
    [p \in params |-> IF p = "config" THEN StringValue("{}") ELSE StringValue("PX1")]

Ids == 1..MaxId

InitializeMsg(id) ==
    [method |-> "initialize", id |-> id, tool |-> "", args |-> EmptyArgs]

Messages ==
    {InitializeMsg(id) : id \in Ids}
      \cup {[method |-> "tools/list", id |-> id, tool |-> "", args |-> EmptyArgs] :
              id \in Ids}
      \cup UNION { {[method |-> "tools/call", id |-> id, tool |-> n, args |-> a] :
                      id \in Ids, a \in ArgMaps(RequiredOf(n))} :
                   n \in CallableNames }

Authorizations == {"", "Bearer test-token"}

\* HTTP requests: JSON-RPC posts with every message, and the other routes
HTTPRequests ==
    {NewRequest("http", "POST", "/", au, tk, TRUE, m) :
        au \in Authorizations, tk \in {"", "pd-token-A"}, m \in Messages}
      \cup {NewRequest("http", hm, p, au, "", b, InitializeMsg(1)) :
              hm \in {"GET", "POST", "DELETE"},
              p \in {"/health", "/health/", "/", "/mcp"},
              au \in Authorizations, b \in BOOLEAN}

StdioRequests == {NewRequest("stdio", "", "", "", "", TRUE, m) : m \in Messages}

\* the tools called by the concurrent requests of SpecConc
ConcTools ==
    {"get_user_data", "create_team", "append_event_orchestration_router_rule"}

ConcRequests ==
    {NewRequest("http", "POST", "/", "Bearer test-token", tk, TRUE,
                [method |-> "tools/call", id |-> 1, tool |-> n,
                 args |-> GoodArgs(RequiredOf(n))]) :
        tk \in {"", "pd-token-A", "pd-token-B"}, n \in ConcTools}

\* the orchestration whose router the backend holds
OrchestrationId == "PX1"

\* a router as PagerDuty creates it: one rule set "start" without rules
StartRouter ==
    [id |-> OrchestrationId, type |-> "router",
     sets |-> <<[id |-> "start", rules |-> <<>>]>>,
     catch_all |-> [present |-> TRUE, route_to |-> "unrouted"]]

\* what the backend or the network may do with a request: the transport
\* fails, or an answer arrives with a status and a body
BackendResponses ==
    [failed : {FALSE}, status : {200, 399, 400, 503},
     body : {Body("{}", TRUE, EmptyPath), Body("oops", FALSE, EmptyPath)}]
      \cup {[failed |-> TRUE, status |-> 0, body |-> NoBody]}

\* argument maps that give each key of keys one of its values or leave it out
RECURSIVE Choices(_, _)
Choices(keys, values) ==
    IF keys = {} THEN {EmptyArgs}
    ELSE LET k == CHOOSE x \in keys : TRUE
             rest == Choices(keys \ {k}, values)
         IN  rest \cup {[x \in DOMAIN a \cup {k} |-> IF x = k THEN v ELSE a[x]] :
                           a \in rest, v \in values[k]}

\* list_incidents calls draw on the parameters its schema declares
ListIncidentsKeys ==
    {"statuses", "date_range", "since", "until", "urgencies",
     "service_ids", "team_ids", "user_ids", "limit"}

\* manage_incidents calls: a comma-separated list of incident ids, and any
\* of the optional fields; list_incidents calls: any of the declared
\* parameters
IncidentMessages ==
    LET ManageKeys ==
            {"incident_ids", "status", "urgency", "assignee_id", "escalation_level"}
        ManageValues ==
            [k \in ManageKeys |->
              CASE k = "incident_ids" -> {StringValue(Str(q)) : q \in ListTexts}
                [] k = "status" -> {StringValue("acknowledged")}
                [] k = "urgency" -> {StringValue("high")}
                [] k = "assignee_id" -> {StringValue("PUSER1")}
                [] k = "escalation_level" ->
                       {NumberValue(0), NumberValue(5), NumberValue(15), NumberValue(20)}]
        ListIncidentsValues ==
            [k \in ListIncidentsKeys |->
              CASE k = "limit" -> {NumberValue(250), NumberValue(-10)}
                [] k = "statuses" -> {StringValue("triggered")}
                [] k = "date_range" -> {StringValue("all")}
                [] k = "since" -> {StringValue("2024-01-01")}
                [] k = "until" -> {StringValue("2024-02-01")}
                [] k = "urgencies" -> {StringValue("high")}
                [] k = "service_ids" -> {StringValue("PSVC1")}
                [] k = "team_ids" -> {StringValue("PTEAM1")}
                [] k = "user_ids" -> {StringValue("PUSER1")}]
    IN  {[method |-> "tools/call", id |-> 1, tool |-> "manage_incidents", args |-> a] :
            a \in Choices(ManageKeys, ManageValues)}
          \cup {[method |-> "tools/call", id |-> 1, tool |-> "list_incidents", args |-> a] :
                   a \in Choices(ListIncidentsKeys, ListIncidentsValues)}

\* calls of the tools whose handlers build query parameters: the path
\* arguments, and any of the parameters the handler reads, the id filters
\* with lists of ids and the limits inside and outside 1..100
ListMessages ==
    LET listing == {t \in AllTools : t.handler.query # <<>>}
        reads(t) == {t.handler.query[i] : i \in 1..Len(t.handler.query)}
        keys(t) == t.required \cup {q[1] : q \in reads(t)}
        kind(t, k) == IF k \in t.required THEN "path"
                      ELSE (CHOOSE q \in reads(t) : q[1] = k)[3]
        values(t) ==
            [k \in keys(t) |->
               CASE kind(t, k) = "path" -> {StringValue("PX1")}
                 [] kind(t, k) = "bool" -> {BoolValue(TRUE), BoolValue(FALSE)}
                 [] kind(t, k) = "number" ->
                        {NumberValue(0), NumberValue(-10), NumberValue(15),
                         NumberValue(500), NumberValue(1010)}
                 [] OTHER ->
                        IF k \in {"team_ids", "service_ids", "user_ids",
                                  "schedule_ids", "escalation_policy_ids"}
                        THEN {StringValue("A,B"), StringValue("A, ")}
                        ELSE {StringValue("PX1")}]
    IN  UNION { {[method |-> "tools/call", id |-> 1, tool |-> t.name, args |-> a] :
                    a \in Choices(keys(t), values(t))} : t \in listing }

\* a rule of a router that routes to a service
RoutedRule(id, service) ==
    [id |-> id, label |-> "", conditions |-> <<>>, route_to |-> service]

\* append_event_orchestration_router_rule calls on the orchestration: a bare
\* rule, a rule with label and conditions, and a rule whose conditions are
\* not JSON
RouterRequests ==
    LET base(service) == [orchestration_id |-> StringValue(OrchestrationId),
                          route_to |-> StringValue(service)]
        args ==
        {base("SVC1"),
         [k \in {"orchestration_id", "route_to", "label", "conditions"} |->
             CASE k = "label" -> StringValue("to-svc2")
               [] k = "conditions" -> StringValue("[{\"expression\":\"event.summary matches 'db'\"}]")
               [] OTHER -> base("SVC2")[k]],
         [k \in {"orchestration_id", "route_to", "conditions"} |->
             IF k = "conditions" THEN StringValue("oops") ELSE base("SVC1")[k]]}
    IN
    {NewRequest("http", "POST", "/", "Bearer test-token", "", TRUE,
                [method |-> "tools/call", id |-> 1,
                 tool |-> "append_event_orchestration_router_rule", args |-> a]) :
        a \in args}

\* the backend answers met by the concurrent requests: a success and a failure
ConcResponses ==
    {[failed |-> FALSE, status |-> 200, body |-> Body("{}", TRUE, EmptyPath)],
     [failed |-> FALSE, status |-> 503, body |-> Body("oops", FALSE, EmptyPath)]}

(***************************************************************************)
(* Actions.                                                                *)
(***************************************************************************)
\* net/http serves request r on a connection of its own: the middleware, the
\* mux and the endpoint handler run up to the response or to the handler's
\* first backend round trip
ServeHTTP(s, requests) ==
    /\ httpMode
    /\ conn[s].pc = "idle"
    /\ \E r \in requests, outcome \in Authorize(authorizer) :
          conn' = [conn EXCEPT
                     ![s] = RunHTTP(mcpServer, pdClient, authorizer, r, outcome)]
    /\ UNCHANGED <<cfg, httpMode, authorizer, pdClient, mcpServer, router>>

\* ServeStdio reads the next message once the previous one is answered
ServeStdio(s, requests) ==
    /\ ~httpMode
    /\ \A t \in DOMAIN conn : conn[t].pc = "idle"
    /\ \E r \in requests :
          conn' = [conn EXCEPT ![s] = HandleMessage(mcpServer, pdClient, r)]
    /\ UNCHANGED <<cfg, httpMode, authorizer, pdClient, mcpServer, router>>

\* GetWithContext/PostWithContext/PutWithContext/DeleteWithContext: a caller
\* hands the gateway a context of its own and the request goes out
RequestWithContext(s, ctx, method) ==
    /\ conn[s].pc = "idle"
    /\ conn' = [conn EXCEPT ![s] =
                  [NewRequest("gateway", "", "", "", "", TRUE, InitializeMsg(1))
                      EXCEPT !.pc = "done",
                             !.ctx = ctx,
                             !.calls = <<doRequestWithContext(pdClient, ctx, method,
                                            [path |-> "/users/me", query |-> NoParams,
                                             url |-> buildURL("/users/me", NoParams),
                                             body |-> NoPayload])>>]]
    /\ UNCHANGED <<cfg, httpMode, authorizer, pdClient, mcpServer, router>>

\* a caller starts PaginateWithContext: offset 0, limit 100, nothing
\* fetched, a nil params replaced by an empty map, and the first page is
\* requested
PaginateWithContext(s, ctx, path, params, maxResults) ==
    /\ conn[s].pc = "idle"
    /\ conn' = [conn EXCEPT ![s] =
                  FetchPage(pdClient,
                      [NewRequest("paginate", "", path, "", "", TRUE, InitializeMsg(1))
                          EXCEPT !.ctx = ctx]
                        @@ [params |-> params, maxResults |-> maxResults,
                            offset |-> 0, limit |-> 100, totalFetched |-> 0,
                            callbacks |-> <<>>, err |-> ""])]
    /\ UNCHANGED <<cfg, httpMode, authorizer, pdClient, mcpServer, router>>

\* the page request of a walk returns and the loop body runs to the walk's
\* return or to the next page request; walks are followed for MaxPages pages
PageReturns(s, resp, cb) ==
    /\ conn[s].pc = "waiting"
    /\ conn[s].transport = "paginate"
    /\ LET w == PaginateResume(pdClient, conn[s], resp, cb)
       IN  /\ Len(w.calls) <= MaxPages
           /\ conn' = [conn EXCEPT ![s] = w]
    /\ UNCHANGED <<cfg, httpMode, authorizer, pdClient, mcpServer, router>>

\* the backend, or the network, answers the call in flight and the handler
\* runs on.  A successful call on the router path is answered with the
\* router as it then stands, a successful PUT on it having been stored
\* first: the backend keeps the sets and catch_all it was sent, and accepts
\* at most MaxRules rules in the first rule set.
BackendRespond(s, resp) ==
    /\ conn[s].pc = "waiting"
    /\ LET call == conn[s].calls[Len(conn[s].calls)]
           h == (CHOOSE t \in mcpServer.tools : t.name = conn[s].rpc.tool).handler
           success == ~resp.failed /\ resp.status < 400
           onRouter ==
               call.path = "/event_orchestrations/" \o OrchestrationId \o "/router"
           stored == IF onRouter /\ success /\ call.method = "PUT"
                     THEN [router EXCEPT !.sets = call.body.sets,
                                         !.catch_all = call.body.catch_all]
                     ELSE router
           firstSetRules == IF Len(stored.sets) > 0
                            THEN Len(stored.sets[1].rules) ELSE 0
           answer == IF onRouter /\ success
                     THEN [resp EXCEPT !.body = Body("orchestration_path", TRUE, stored)]
                     ELSE resp
       IN  /\ firstSetRules <= MaxRules
           /\ router' = stored
           /\ conn' = [conn EXCEPT ![s] = ToolHandlerResume(pdClient, h, conn[s], answer)]
    /\ UNCHANGED <<cfg, httpMode, authorizer, pdClient, mcpServer>>

\* the response is delivered; the request and its context are gone
Close(s) ==
    /\ conn[s].pc = "done"
    /\ conn' = [conn EXCEPT ![s] = Idle]
    /\ UNCHANGED <<cfg, httpMode, authorizer, pdClient, mcpServer, router>>

(***************************************************************************)
(* Specifications.                                                         *)
(***************************************************************************)
\* main: flags, client from the environment, server.New, one front door
Compose(slots, routers) ==
    /\ cfg \in [EnableWriteTools : BOOLEAN]
    /\ httpMode \in BOOLEAN
    /\ authorizer \in (IF httpMode THEN {"MockAuthorizer", "ExternalAuthorizer"}
                                   ELSE {"nil"})
    /\ pdClient = NewClient(DefaultAPIKey)
    /\ mcpServer = New(cfg)
    /\ conn = [s \in slots |-> Idle]
    /\ router \in routers

Init == Compose({1}, {StartRouter})

Next ==
    \/ \E s \in DOMAIN conn : ServeHTTP(s, HTTPRequests)
    \/ \E s \in DOMAIN conn : ServeStdio(s, StdioRequests)
    \/ \E s \in DOMAIN conn, resp \in BackendResponses : BackendRespond(s, resp)
    \/ \E s \in DOMAIN conn : Close(s)

Spec == Init /\ [][Next]_vars

\* the HTTP server under the default authorizer with MaxConn requests in flight
InitConc ==
    /\ Compose(1..MaxConn, {StartRouter})
    /\ httpMode
    /\ authorizer = "MockAuthorizer"

NextConc ==
    \/ \E s \in DOMAIN conn : ServeHTTP(s, ConcRequests)
    \/ \E s \in DOMAIN conn, resp \in ConcResponses : BackendRespond(s, resp)
    \/ \E s \in DOMAIN conn : Close(s)

SpecConc == InitConc /\ [][NextConc]_vars

\* the incident tools called with their optional parameters, on either
\* front door
NextIncidents ==
    \/ \E s \in DOMAIN conn :
          ServeHTTP(s, {NewRequest("http", "POST", "/", "Bearer test-token", "", TRUE, m) :
                           m \in IncidentMessages})
    \/ \E s \in DOMAIN conn :
          ServeStdio(s, {NewRequest("stdio", "", "", "", "", TRUE, m) :
                            m \in IncidentMessages})
    \/ \E s \in DOMAIN conn, resp \in ConcResponses : BackendRespond(s, resp)
    \/ \E s \in DOMAIN conn : Close(s)

SpecIncidents == Init /\ [][NextIncidents]_vars

\* the listing tools called with their optional parameters, on either
\* front door
NextLists ==
    \/ \E s \in DOMAIN conn :
          ServeHTTP(s, {NewRequest("http", "POST", "/", "Bearer test-token", "", TRUE, m) :
                           m \in ListMessages})
    \/ \E s \in DOMAIN conn :
          ServeStdio(s, {NewRequest("stdio", "", "", "", "", TRUE, m) :
                            m \in ListMessages})
    \/ \E s \in DOMAIN conn, resp \in ConcResponses : BackendRespond(s, resp)
    \/ \E s \in DOMAIN conn : Close(s)

SpecLists == Init /\ [][NextLists]_vars

\* pagination walks: callers with and without a result budget and params of
\* their own, a backend whose pages parse or not and report more or not,
\* and callbacks that count nothing, one, a full page, or fail
NextPaginate ==
    \/ \E s \in DOMAIN conn, maxResults \in {-1, 0, 1, 150},
          ctx \in {Background, WithToken(Background, "pd-token-A")},
          params \in {NoParams, [k \in {"limit", "query"} |-> "5"]} :
          PaginateWithContext(s, ctx, "/incidents", params, maxResults)
    \/ \E s \in DOMAIN conn,
          resp \in [failed : {FALSE}, status : {200, 503},
                    body : {[text |-> "page", valid |-> TRUE, more |-> TRUE],
                            [text |-> "page", valid |-> TRUE, more |-> FALSE],
                            [text |-> "oops", valid |-> FALSE, more |-> FALSE]}]
                    \cup {[failed |-> TRUE, status |-> 0, body |-> NoBody]},
          cb \in [count : {0, 1, 100}, err : {""}]
                   \cup {[count |-> 0, err |-> "handler failed"]} :
          PageReturns(s, resp, cb)
    \/ \E s \in DOMAIN conn : Close(s)

SpecPaginate == Init /\ [][NextPaginate]_vars

\* MaxConn callers appending rules to the one router over HTTP, write tools
\* enabled; the router the backend holds when the calls arrive is without
\* rule sets, as created, with a rule, or with a second rule set and no
\* catch_all
InitRouter ==
    /\ Compose(1..MaxConn,
         {[StartRouter EXCEPT !.sets = <<>>],
          StartRouter,
          [StartRouter EXCEPT !.sets = <<[id |-> "start",
                                          rules |-> <<RoutedRule("r0", "SVC0")>>]>>],
          [StartRouter EXCEPT !.sets = <<[id |-> "start",
                                          rules |-> <<RoutedRule("r0", "SVC0")>>],
                                         [id |-> "nested",
                                          rules |-> <<RoutedRule("r1", "SVC9")>>]>>,
                              !.catch_all = EmptyPath.catch_all]})
    /\ httpMode
    /\ authorizer = "MockAuthorizer"
    /\ cfg.EnableWriteTools

NextRouter ==
    \/ \E s \in DOMAIN conn : ServeHTTP(s, RouterRequests)
    \/ \E s \in DOMAIN conn, resp \in ConcResponses : BackendRespond(s, resp)
    \/ \E s \in DOMAIN conn : Close(s)

SpecRouter == InitRouter /\ [][NextRouter]_vars

\* the gateway on its own: clients built with different default keys, and
\* callers passing contexts with no token, an empty token or a token
InitCred ==
    /\ cfg \in [EnableWriteTools : BOOLEAN]
    /\ httpMode \in BOOLEAN
    /\ authorizer = IF httpMode THEN "MockAuthorizer" ELSE "nil"
    /\ pdClient \in {NewClient(k) : k \in {DefaultAPIKey, "team-api-key"}}
    /\ mcpServer = New(cfg)
    /\ conn = [s \in 1..MaxConn |-> Idle]
    /\ router = StartRouter

NextCred ==
    \/ \E s \in DOMAIN conn, method \in {"GET", "POST", "PUT", "DELETE"},
          ctx \in {Background}
                    \cup {WithToken(Background, tk) : tk \in {"", "pd-token-A", "pd-token-B"}} :
          RequestWithContext(s, ctx, method)
    \/ \E s \in DOMAIN conn : Close(s)

SpecCred == InitCred /\ [][NextCred]_vars

(***************************************************************************)
(* Properties.                                                             *)
(***************************************************************************)
Serving == {s \in DOMAIN conn : conn[s].pc # "idle"}
Answered == {s \in DOMAIN conn : conn[s].pc = "done"}

WriteVerbs ==
    {"create", "update", "delete", "manage", "add", "remove", "start", "append"}

WriteCapable == {t.name : t \in {u \in AllTools : u.verb \in WriteVerbs}}

\* the request in slot s is an HTTP POST / carrying message kind method
IsPost(s, method) ==
    /\ conn[s].transport = "http"
    /\ conn[s].httpMethod = "POST"
    /\ conn[s].path = "/"
    /\ conn[s].rpc.method = method

C1_State ==
    /\ \A w \in WriteCapable :
          (w \in ToolNames(mcpServer)) <=> cfg.EnableWriteTools
    /\ \A s \in Answered :
          (conn[s].rpc.method = "tools/list" /\ conn[s].dispatched)
            => \A w \in WriteCapable :
                  (w \in conn[s].response.tools) <=> cfg.EnableWriteTools

\* C1: every write-capable tool (create_, update_, delete_, manage_, add_,
\* remove_, start_, append_) is in the catalog, and in every tools/list
\* answer, if and only if the server was composed with EnableWriteTools; no
\* step of any request adds a tool to the catalog or removes one.
C1_WriteToolsIffEnabled ==
    [] C1_State /\ [][mcpServer' = mcpServer /\ cfg' = cfg]_vars

\* a tools/list answer that shows a write tool, and one that shows none
C1_Witness ==
    \E s \in Answered :
        /\ conn[s].rpc.method = "tools/list"
        /\ cfg.EnableWriteTools
        /\ "delete_team" \in conn[s].response.tools
        /\ "get_team" \in conn[s].response.tools

\* C2: composed with EnableWriteTools = FALSE, no request on either front
\* door makes the backend gateway send a POST, PUT or DELETE: every gateway
\* call is a GET, and every handler the read registrars bind issues only GETs.
C2_ReadOnlyNeverWrites ==
    ~cfg.EnableWriteTools =>
        /\ \A s \in Serving :
              \A i \in 1..Len(conn[s].calls) : conn[s].calls[i].method = "GET"
        /\ \A t \in mcpServer.tools :
              \A i \in 1..Len(t.handler.calls) : t.handler.calls[i] = "GET"

\* read-only mode: a read tool has made its backend call over HTTP
C2_Witness ==
    \E s \in Answered :
        /\ ~cfg.EnableWriteTools
        /\ IsPost(s, "tools/call")
        /\ conn[s].rpc.tool = "get_team"
        /\ Len(conn[s].calls) = 1
        /\ ~conn[s].response.isError

\* C3: every backend request made for an authorized HTTP request that carries
\* a non-empty X-PagerDuty-Token uses that token as its credential.
C3_OverrideTokenUsed ==
    \A s \in Serving :
        (conn[s].transport = "http" /\ conn[s].pdToken # "")
          => \A i \in 1..Len(conn[s].calls) :
                conn[s].calls[i].cred = conn[s].pdToken

\* C4: under any interleaving of HTTP requests, a backend call made for a
\* request carries that request's own X-PagerDuty-Token or the default key,
\* never another request's token; a context token is always the one its own
\* request supplied, and the client's default key never changes.
C4_NoCredentialLeak ==
    /\ pdClient.apiKey = DefaultAPIKey
    /\ \A s \in Serving :
          /\ conn[s].ctx.hasToken =>
                (conn[s].pdToken # "" /\ conn[s].ctx.token = conn[s].pdToken)
          /\ \A i \in 1..Len(conn[s].calls) :
                \/ conn[s].calls[i].cred = DefaultAPIKey
                \/ (conn[s].pdToken # "" /\ conn[s].calls[i].cred = conn[s].pdToken)

\* two requests with different override tokens are in flight together, each
\* with a backend call made
C4_Witness ==
    \E s, t \in Serving :
        /\ conn[s].pdToken = "pd-token-A" /\ conn[s].ctx.token = "pd-token-A"
        /\ conn[t].pdToken = "pd-token-B" /\ conn[t].ctx.token = "pd-token-B"
        /\ conn[s].pc = "waiting" /\ conn[t].pc = "waiting"
        /\ conn[s].calls # <<>> /\ conn[t].calls # <<>>

\* the request in slot s was turned away before JSON-RPC processing
NotDispatched(s) ==
    /\ conn[s].pc = "done"
    /\ ~conn[s].dispatched
    /\ ~conn[s].handlerRan
    /\ conn[s].calls = <<>>

\* C5: an HTTP POST / with no (or an empty) Authorization header is answered
\* 401 with the error "Authorization header required" and never reaches the
\* JSON-RPC dispatcher: no handler runs and no backend call is made.
C5_MissingAuthorizationRejected ==
    \A s \in Serving :
        (conn[s].transport = "http" /\ conn[s].httpMethod = "POST"
           /\ conn[s].path = "/" /\ conn[s].authorization = "")
          => /\ NotDispatched(s)
             /\ conn[s].response.status = StatusUnauthorized
             /\ conn[s].response.kind = "http_error"
             /\ conn[s].response.error = "Authorization header required"

\* a well-formed call of a registered tool, sent without the header, was
\* turned away
C5_Witness ==
    \E s \in Answered :
        /\ IsPost(s, "tools/call")
        /\ conn[s].authorization = ""
        /\ conn[s].pdToken = "pd-token-A"
        /\ conn[s].rpc.tool = "get_user_data"
        /\ conn[s].response.status = StatusUnauthorized

\* C6: for a request with an Authorization header, an error from the
\* Authorizer gives HTTP 500 and a (false, nil) answer gives HTTP 401, so the
\* two outcomes differ in status code; neither request is dispatched.
C6_AuthorizerFailureVsDenial ==
    \A s \in Serving :
        (conn[s].transport = "http" /\ conn[s].authorization # ""
           /\ conn[s].authCalls > 0)
          => /\ conn[s].authResult.err
                  => /\ NotDispatched(s)
                     /\ conn[s].response.status = StatusInternalServerError
             /\ (~conn[s].authResult.err /\ ~conn[s].authResult.authorized)
                  => /\ NotDispatched(s)
                     /\ conn[s].response.status = StatusUnauthorized
             /\ StatusInternalServerError # StatusUnauthorized

\* the Authorizer returned (false, err) for a request and the answer was 500
C6_Witness ==
    \E s \in Answered :
        /\ IsPost(s, "tools/call")
        /\ conn[s].authResult = [authorized |-> FALSE, err |-> TRUE]
        /\ conn[s].response.status = StatusInternalServerError

\* C7: under the default always-allow Authorizer, an HTTP POST / with a
\* non-empty Authorization header (and a body that can be read) is passed to
\* JSON-RPC processing, and its answer is HTTP 200 with a JSON-RPC response
\* whose id is the request's id.
C7_DefaultAuthorizerPasses ==
    authorizer = "MockAuthorizer" =>
        \A s \in Serving :
            (conn[s].transport = "http" /\ conn[s].httpMethod = "POST"
               /\ conn[s].path = "/" /\ conn[s].authorization # ""
               /\ conn[s].bodyOk)
              => /\ conn[s].dispatched
                 /\ conn[s].pc = "done"
                      => /\ conn[s].response.status = StatusOK
                         /\ conn[s].response.kind = "jsonrpc"
                         /\ conn[s].response.id = conn[s].rpc.id

\* an initialize with id 2 was answered 200 under the default Authorizer
C7_Witness ==
    \E s \in Answered :
        /\ authorizer = "MockAuthorizer"
        /\ IsPost(s, "initialize")
        /\ conn[s].authorization = "Bearer test-token"
        /\ conn[s].rpc.id = 2
        /\ conn[s].response.status = StatusOK
        /\ conn[s].response.id = 2
        /\ conn[s].response.serverName = ServerName

\* C8: GET /health is answered 200 with status "ok" and a non-empty version
\* equal to ServerVersion, with or without an Authorization header and under
\* any Authorizer; the Authorizer is not consulted for it.
C8_HealthAlwaysOpen ==
    \A s \in Serving :
        (conn[s].transport = "http" /\ conn[s].httpMethod = "GET"
           /\ conn[s].path = "/health")
          => /\ conn[s].pc = "done"
             /\ conn[s].response.status = StatusOK
             /\ conn[s].response.kind = "health"
             /\ conn[s].response.healthStatus = "ok"
             /\ conn[s].response.version = ServerVersion
             /\ conn[s].response.version # ""
             /\ conn[s].authCalls = 0

\* /health was answered without a header while an Authorizer that can deny
\* or fail is plugged in
C8_Witness ==
    \E s \in Answered :
        /\ authorizer = "ExternalAuthorizer"
        /\ conn[s].path = "/health" /\ conn[s].httpMethod = "GET"
        /\ conn[s].authorization = ""
        /\ conn[s].response.status = StatusOK

\* C9: a tools/call naming a tool that is not in the catalog, in particular
\* any write tool while write tools are disabled, is answered with a JSON-RPC
\* error and not with a tool result; no handler runs and no backend request
\* is made.
C9_UnknownToolIsProtocolError ==
    \A s \in Serving :
        (conn[s].dispatched /\ conn[s].rpc.method = "tools/call"
           /\ \/ conn[s].rpc.tool \notin ToolNames(mcpServer)
              \/ (~cfg.EnableWriteTools /\ conn[s].rpc.tool \in WriteCapable))
          => /\ conn[s].pc = "done"
             /\ conn[s].response.kind = "jsonrpc"
             /\ conn[s].response.rpcError
             /\ ~conn[s].response.isError
             /\ ~conn[s].handlerRan
             /\ conn[s].calls = <<>>

\* delete_team was called with its argument while write tools are disabled
C9_Witness ==
    \E s \in Answered :
        /\ ~cfg.EnableWriteTools
        /\ conn[s].dispatched
        /\ conn[s].rpc.method = "tools/call"
        /\ conn[s].rpc.tool = "delete_team"
        /\ conn[s].rpc.args = GoodArgs({"team_id"})
        /\ conn[s].response.rpcError

\* the descriptor a dispatched call resolved to
Called(s) == CHOOSE t \in mcpServer.tools : t.name = conn[s].rpc.tool

\* the declared-required parameters the call in slot s does not supply as a
\* non-empty string
Unsupplied(args, p) ==
    \/ p \notin DOMAIN args
    \/ args[p].type # "string"
    \/ args[p].v = ""

Missing(s) == {p \in Called(s).required : Unsupplied(conn[s].rpc.args, p)}

\* a tool-level error result, no protocol error, no backend request
ToolErrorOnly(s) ==
    /\ conn[s].pc = "done"
    /\ conn[s].response.kind = "jsonrpc"
    /\ conn[s].response.isError
    /\ ~conn[s].response.rpcError
    /\ conn[s].calls = <<>>

\* C10 as stated: whenever a declared-required parameter p is absent, empty
\* or not a string, the call returns the tool-level error "<p> is required",
\* with no protocol error and no backend request.
C10_Original ==
    \A s \in Serving :
        conn[s].handlerRan =>
            \A p \in Missing(s) :
                /\ ToolErrorOnly(s)
                /\ conn[s].response.text = p \o " is required"

\* position of parameter p in the handler's sequence of checks
CheckedAt(h, p) == CHOOSE i \in 1..Len(h.checks) : h.checks[i] = p

\* C10 amended: a call that leaves any declared-required parameter absent,
\* empty or non-string returns a tool-level error, no protocol error and no
\* backend request; its message is "<q> is required" for the unsupplied
\* parameter q the handler checks first, hence "<p> is required" whenever
\* every required parameter checked before p is supplied.
C10_FirstMissingReported ==
    \A s \in Serving :
        (conn[s].handlerRan /\ Missing(s) # {})
          => /\ ToolErrorOnly(s)
             /\ \E q \in Missing(s) :
                   /\ conn[s].response.text = q \o " is required"
                   /\ \A p \in Missing(s) :
                         CheckedAt(Called(s).handler, q)
                           <= CheckedAt(Called(s).handler, p)

\* create_schedule_override was called with user_id empty and end a number:
\* the answer names user_id
C10_Witness ==
    \E s \in Answered :
        /\ conn[s].handlerRan
        /\ conn[s].rpc.tool = "create_schedule_override"
        /\ Missing(s) = {"user_id", "end"}
        /\ DOMAIN conn[s].rpc.args = {"schedule_id", "user_id", "start", "end"}
        /\ conn[s].rpc.args["user_id"] = StringValue("")
        /\ conn[s].rpc.args["end"] = NumberValue(70)
        /\ conn[s].response.text = "user_id is required"

(***************************************************************************)
(* C11: the catalog's declared contract matches the handlers.              *)
(***************************************************************************)
\* the parameter a tool-level "is required" answer names, "" if it is none
RejectedFor(s) ==
    LET named == {p \in UNION {t.required : t \in AllTools} \cup
                        UNION {{t.handler.checks[i] : i \in 1..Len(t.handler.checks)}
                                  : t \in AllTools} :
                     conn[s].response.text = p \o " is required"}
    IN  IF conn[s].response.isError /\ named # {}
        THEN CHOOSE p \in named : TRUE
        ELSE ""

\* C11: every registered name has exactly one descriptor, in the catalog and
\* in every tools/list answer; a call is rejected with "<p> is required"
\* only for a parameter p its descriptor declares required and the call
\* leaves unsupplied, and a call that leaves a declared-required parameter
\* unsupplied is rejected that way, so the declared required set is exactly
\* the set of parameters whose absence the handler rejects.
C11_DeclaredRequiredIsEnforced ==
    /\ \A t \in mcpServer.tools :
          Cardinality({u \in mcpServer.tools : u.name = t.name}) = 1
    /\ \A s \in Answered :
          (conn[s].dispatched /\ conn[s].rpc.method = "tools/list"
              /\ ~conn[s].response.rpcError)
            => conn[s].response.tools = {t.name : t \in mcpServer.tools}
    /\ \A s \in Serving :
          conn[s].handlerRan =>
            /\ RejectedFor(s) # "" => RejectedFor(s) \in Missing(s)
            /\ Missing(s) # {} => RejectedFor(s) # ""
            /\ \A p \in Called(s).required :
                  Missing(s) = {p} => RejectedFor(s) = p

\* create_alert_grouping_setting, declared with three required parameters,
\* was called with service_ids alone unsupplied and answered
\* "service_ids is required"
C11_Witness ==
    \E s \in Answered :
        /\ conn[s].handlerRan
        /\ conn[s].rpc.tool = "create_alert_grouping_setting"
        /\ Called(s).required = {"name", "service_ids", "type"}
        /\ Missing(s) = {"service_ids"}
        /\ conn[s].response.text = "service_ids is required"
        /\ conn[s].calls = <<>>

(***************************************************************************)
(* C19: tools that delete are annotated destructive.                       *)
(***************************************************************************)
\* the registered tools whose handler issues a backend DELETE
Deleting(srv) ==
    {t \in srv.tools : \E i \in 1..Len(t.handler.calls) : t.handler.calls[i] = "DELETE"}

\* C19: every registered tool whose handler issues a backend DELETE carries
\* destructiveHint = TRUE (with write tools enabled these are delete_team,
\* remove_team_member and delete_alert_grouping_setting), and every DELETE
\* that reaches the gateway was issued for a tool so annotated.
C19_DeletingToolsAreDestructive ==
    /\ \A t \in Deleting(mcpServer) : t.destructiveHint
    /\ cfg.EnableWriteTools =>
          {t.name : t \in Deleting(mcpServer)} =
              {"delete_team", "remove_team_member", "delete_alert_grouping_setting"}
    /\ \A s \in Serving :
          (\E i \in 1..Len(conn[s].calls) : conn[s].calls[i].method = "DELETE")
              => Called(s).destructiveHint

\* remove_team_member sent its DELETE to the backend
C19_Witness ==
    \E s \in Serving :
        /\ conn[s].rpc.tool = "remove_team_member"
        /\ Len(conn[s].calls) = 1
        /\ conn[s].calls[1].method = "DELETE"
        /\ Called(s) \in Deleting(mcpServer)

(***************************************************************************)
(* C12: the bulk update of manage_incidents.                               *)
(***************************************************************************)
\* the call in slot s supplies string parameter p / number parameter p
SuppliedString(s, p) == ~Unsupplied(conn[s].rpc.args, p)
SuppliedNumber(s, p) ==
    p \in DOMAIN conn[s].rpc.args /\ conn[s].rpc.args[p].type = "number"

\* a manage_incidents call that reached its handler and lists at least one id
Managing(s) ==
    /\ conn[s].handlerRan
    /\ conn[s].rpc.tool = "manage_incidents"
    /\ SuppliedString(s, "incident_ids")
    /\ Len(splitAndTrim(conn[s].rpc.args["incident_ids"].v)) >= 1

\* the one PUT /incidents with an entry per listed id, in order, each with
\* status, urgency and assignment exactly when supplied
OnePutPerBatch(s) ==
    LET ids == splitAndTrim(conn[s].rpc.args["incident_ids"].v)
        args == conn[s].rpc.args
        body == conn[s].calls[1].body
        member(p) == IF p = "assignee_id" THEN "assignments" ELSE p
    IN  /\ Len(conn[s].calls) = 1
        /\ conn[s].calls[1].method = "PUT"
        /\ conn[s].calls[1].path = "/incidents"
        /\ Len(body) = Len(ids)
        /\ \A i \in 1..Len(ids) :
              /\ body[i]["id"] = StringValue(ids[i])
              /\ \A p \in {"status", "urgency", "assignee_id"} :
                    IF SuppliedString(s, p)
                    THEN member(p) \in DOMAIN body[i] /\ body[i][member(p)] = args[p]
                    ELSE member(p) \notin DOMAIN body[i]

\* C12 as stated: a manage_incidents call listing n >= 1 ids makes exactly
\* one backend call, PUT /incidents, whose payload has n entries, one per id
\* in input order, each carrying every supplied field with the supplied value
\* and none of the unsupplied fields.
C12_Original ==
    \A s \in Serving :
        Managing(s) =>
            /\ OnePutPerBatch(s)
            /\ \A i \in 1..Len(conn[s].calls[1].body) :
                  IF SuppliedNumber(s, "escalation_level")
                  THEN /\ "escalation_level" \in DOMAIN conn[s].calls[1].body[i]
                       /\ conn[s].calls[1].body[i]["escalation_level"]
                             = conn[s].rpc.args["escalation_level"]
                  ELSE "escalation_level" \notin DOMAIN conn[s].calls[1].body[i]

\* the whole number a supplied escalation_level is cut down to, 0 if none
LevelSent(s) ==
    IF SuppliedNumber(s, "escalation_level")
    THEN LET v == conn[s].rpc.args["escalation_level"].n
         IN  CHOOSE m \in 0..v : 10 * m <= v /\ v < 10 * (m + 1)
    ELSE 0

\* C12 amended: a manage_incidents call listing n >= 1 ids makes exactly one
\* backend call, PUT /incidents, whose payload has n entries, one per id in
\* input order; every entry carries the supplied status, urgency and
\* assignee and none of these when unsupplied, and carries escalation_level,
\* cut down to a whole number, exactly when that whole number is at least 1.
C12_BulkUpdateInOnePut ==
    \A s \in Serving :
        Managing(s) =>
            /\ OnePutPerBatch(s)
            /\ \A i \in 1..Len(conn[s].calls[1].body) :
                  IF LevelSent(s) >= 1
                  THEN /\ "escalation_level" \in DOMAIN conn[s].calls[1].body[i]
                       /\ conn[s].calls[1].body[i]["escalation_level"]
                             = NumberValue(10 * LevelSent(s))
                  ELSE "escalation_level" \notin DOMAIN conn[s].calls[1].body[i]

\* incident_ids "A,B" with status acknowledged and escalation_level 0: one
\* PUT with two entries, both acknowledged, neither with an escalation level
C12_Witness ==
    \E s \in Answered :
        /\ Managing(s)
        /\ conn[s].rpc.args["incident_ids"] = StringValue("A,B")
        /\ DOMAIN conn[s].rpc.args = {"incident_ids", "status", "escalation_level"}
        /\ conn[s].rpc.args["escalation_level"] = NumberValue(0)
        /\ Len(conn[s].calls) = 1
        /\ conn[s].calls[1].body =
              <<[type |-> StringValue("incident_reference"), id |-> StringValue("A"),
                 status |-> StringValue("acknowledged")],
                [type |-> StringValue("incident_reference"), id |-> StringValue("B"),
                 status |-> StringValue("acknowledged")]>>
        /\ ~conn[s].response.isError

(***************************************************************************)
(* C13, C14: appending a rule to a router.                                 *)
(***************************************************************************)
\* an append call that has sent its PUT
Appending(s) ==
    /\ conn[s].pc # "idle"
    /\ conn[s].handlerRan
    /\ conn[s].rpc.tool = "append_event_orchestration_router_rule"
    /\ Len(conn[s].calls) = 2

\* an append call that succeeded
Appended(s) ==
    /\ conn[s].pc = "done"
    /\ conn[s].handlerRan
    /\ conn[s].rpc.tool = "append_event_orchestration_router_rule"
    /\ ~conn[s].response.isError
    /\ ~conn[s].response.rpcError

\* the router the backend answered the call's GET with
Fetched(s) == conn[s].answers[1].body.path

RuleOf(s) == conn[s].calls[2].body.sets[1].rules[Len(conn[s].calls[2].body.sets[1].rules)]

\* C14: the append is not atomic.  When two append calls have both
\* succeeded after fetching the same router and the backend's router is the
\* one stored by the call that wrote last, its first rule set is the fetched
\* rules followed by the last writer's rule alone: the other call's rule is
\* lost.  The PUT carries the sets and the catch_all and no version.
C14_LastWriterWins ==
    \A s, t \in Serving :
        (/\ s # t
         /\ Appended(s) /\ Appended(t)
         /\ Fetched(s) = Fetched(t)
         /\ Len(Fetched(s).sets) >= 1
         /\ router = conn[t].answers[2].body.path)
          => /\ router.sets[1].rules = Fetched(t).sets[1].rules \o <<RuleOf(t)>>
             /\ DOMAIN conn[t].calls[2].body = {"sets", "catch_all"}
             /\ DOMAIN conn[s].calls[2].body = {"sets", "catch_all"}

\* two calls fetched the router as created, appended rules routing to SVC1
\* and to SVC2, and both succeeded; the router holds the SVC2 rule alone
C14_Witness ==
    \E s, t \in Answered :
        /\ s # t
        /\ Appended(s) /\ Appended(t)
        /\ Fetched(s) = StartRouter /\ Fetched(t) = StartRouter
        /\ RuleOf(s).route_to = "SVC1"
        /\ RuleOf(t).route_to = "SVC2"
        /\ conn[s].answers[2].body.path.sets[1].rules = <<RuleOf(s)>>
        /\ router = conn[t].answers[2].body.path
        /\ router.sets[1].rules = <<RuleOf(t)>>

(***************************************************************************)
(* C15: backend errors become tool-level errors.                           *)
(***************************************************************************)
\* the text holds the status code and, after it, the body as received
HoldsStatusAndBody(text, resp) ==
    \E pre \in {"", "API error (status ",
                "failed to get current router: API error (status "},
       mid \in {"", " ", ": ", "): "} :
        text = pre \o ToString(resp.status) \o mid \o resp.body.text

\* C15: when the backend answers a gateway request with a status of 400 or
\* more, the gateway returns an error holding the status code and the body
\* as received, and the handler ends with a tool-level error result holding
\* them too, with no protocol error; an answer with a status below 400 is
\* returned by the gateway without error, with the body as received.
C15_BackendErrorIsToolError ==
    \A s \in Serving :
        \A i \in 1..Len(conn[s].answers) :
            LET a == conn[s].answers[i]
                ret == conn[s].returns[i]
            IN  /\ (~a.failed /\ a.status >= 400) =>
                      /\ ret.err # ""
                      /\ HoldsStatusAndBody(ret.err, a)
                      /\ i = Len(conn[s].answers)
                      /\ conn[s].pc = "done"
                      /\ conn[s].response.kind = "jsonrpc"
                      /\ conn[s].response.isError
                      /\ ~conn[s].response.rpcError
                      /\ HoldsStatusAndBody(conn[s].response.text, a)
                /\ (~a.failed /\ a.status < 400) =>
                      /\ ret.err = ""
                      /\ ret.data = a.body

\* get_team was answered 400 with the body "oops": the result is a tool
\* error with the text "API error (status 400): oops"
C15_Witness ==
    \E s \in Answered :
        /\ conn[s].rpc.tool = "get_team"
        /\ Len(conn[s].answers) = 1
        /\ conn[s].answers[1].status = 400
        /\ conn[s].answers[1].body.text = "oops"
        /\ conn[s].response.isError
        /\ ~conn[s].response.rpcError
        /\ conn[s].response.text = "API error (status 400): oops"

(***************************************************************************)
(* C18: the filters of list_incidents.                                     *)
(***************************************************************************)
\* the query parameter the backend reads a list_incidents parameter from
QueryKey(p) ==
    IF p \in {"statuses", "urgencies", "service_ids", "team_ids", "user_ids"}
    THEN p \o "[]"
    ELSE p

\* C18: when list_incidents reaches the backend, every string parameter of
\* its schema that the call supplies non-empty is carried by the query of
\* the GET /incidents request under its query key, service_ids, team_ids and
\* user_ids as service_ids[], team_ids[] and user_ids[].
C18_DeclaredFiltersForwarded ==
    \A s \in Serving :
        (conn[s].handlerRan /\ conn[s].rpc.tool = "list_incidents"
            /\ Len(conn[s].calls) >= 1)
          => /\ conn[s].calls[1].method = "GET"
             /\ conn[s].calls[1].path = "/incidents"
             /\ \A p \in ListIncidentsKeys \ {"limit"} :
                   SuppliedString(s, p) =>
                      /\ QueryKey(p) \in DOMAIN conn[s].calls[1].query
                      /\ conn[s].calls[1].query[QueryKey(p)] = conn[s].rpc.args[p].v

(***************************************************************************)
(* C20: credential resolution for one backend request.                     *)
(***************************************************************************)
\* the credential slot s's context calls for
CredentialFor(s) ==
    IF conn[s].ctx.hasToken /\ conn[s].ctx.token # ""
    THEN conn[s].ctx.token
    ELSE pdClient.apiKey

C20_State ==
    \A s \in Answered :
        \A i \in 1..Len(conn[s].calls) :
            conn[s].calls[i].authorization = "Token token=" \o CredentialFor(s)

\* C20: the Authorization header of a backend request is built from the
\* override token when the call context carries a non-empty one, and from
\* the client's default API key when the context carries no token or an
\* empty one; no step changes the client's default key.
C20_CredentialResolution ==
    /\ []C20_State
    /\ [][pdClient' = pdClient]_vars

\* requests went out under a context with the empty token and under one with
\* pd-token-A: the first carries the default key, the second the token
C20_Witness ==
    \E s, t \in Answered :
        /\ conn[s].ctx = WithToken(Background, "")
        /\ conn[s].calls[1].authorization = "Token token=" \o pdClient.apiKey
        /\ conn[t].ctx = WithToken(Background, "pd-token-A")
        /\ conn[t].calls[1].authorization = "Token token=pd-token-A"
        /\ pdClient.apiKey = "team-api-key"

HandlerOf(s) == (CHOOSE t \in AllTools : t.name = conn[s].rpc.tool).handler

\* the backend answer is one the gateway reports as an error
Refused(resp) == resp.failed \/ resp.status >= 400

\* C21: a tools/call sends at most one backend request per gateway call of
\* its handler, each answered once, and an answer that is a transport
\* failure or a status >= 400 is the last: the tool result is an error and
\* no further request goes out.
C21_NothingIsRetried ==
    \A s \in Serving :
        (conn[s].rpc.method = "tools/call" /\ conn[s].handlerRan)
          => /\ Len(conn[s].calls) <= Len(HandlerOf(s).calls)
             /\ \A i \in 1..Len(conn[s].calls) :
                    conn[s].calls[i].method = HandlerOf(s).calls[i]
             /\ Len(conn[s].answers) =
                    Len(conn[s].calls) - (IF conn[s].pc = "waiting" THEN 1 ELSE 0)
             /\ \A i \in 1..Len(conn[s].answers) :
                    Refused(conn[s].answers[i])
                      => /\ i = Len(conn[s].calls)
                         /\ conn[s].pc = "done"
                         /\ conn[s].response.isError

\* the two-call append handler stopped after its first call was refused
C21_Witness ==
    \E s \in Answered :
        /\ conn[s].rpc.tool = "append_event_orchestration_router_rule"
        /\ Len(conn[s].calls) = 1
        /\ Len(conn[s].answers) = 1
        /\ conn[s].answers[1].status = 503
        /\ conn[s].response.isError

(***************************************************************************)
(* C25, C26: the order of the HTTP middleware.                             *)
(***************************************************************************)
\* HTTP requests being served on a path other than the health endpoint's
Guarded == {s \in Serving : conn[s].transport = "http" /\ conn[s].path # "/health"}

\* the middleware turned the request away
RejectedByMiddleware(s) ==
    /\ conn[s].response.kind = "http_error"
    /\ conn[s].response.status \in {StatusUnauthorized, StatusInternalServerError}

\* C25: on a non-health HTTP request the middleware tests the Authorization
\* header, then calls Authorize at most once and never for an empty header,
\* then puts X-PagerDuty-Token in the context, then dispatches; a request it
\* rejects with 401 or 500 is not dispatched, sends nothing to the backend
\* and has no token in its context.
C25_MiddlewareOrder ==
    \A s \in Guarded :
        /\ conn[s].authCalls = (IF conn[s].authorization = "" THEN 0 ELSE 1)
        /\ RejectedByMiddleware(s)
             <=> \/ conn[s].authorization = ""
                 \/ conn[s].authResult.err
                 \/ ~conn[s].authResult.authorized
        /\ RejectedByMiddleware(s)
             => /\ ~conn[s].dispatched
                /\ ~conn[s].handlerRan
                /\ conn[s].calls = <<>>
                /\ ~conn[s].ctx.hasToken
        /\ ~RejectedByMiddleware(s)
             => /\ conn[s].ctx.hasToken <=> conn[s].pdToken # ""
                /\ conn[s].ctx.hasToken => conn[s].ctx.token = conn[s].pdToken
        /\ conn[s].dispatched => ~RejectedByMiddleware(s)

\* a request carrying an override token was refused by the authorizer
C25_Witness ==
    \E s \in Guarded :
        /\ conn[s].pdToken = "pd-token-A"
        /\ conn[s].authCalls = 1
        /\ ~conn[s].authResult.err
        /\ ~conn[s].authResult.authorized
        /\ conn[s].response.status = StatusUnauthorized

\* C26: with an authorizer configured only the path "/health" is served
\* without authorization: on every other path, "/health/" included, and for
\* every method, a request without an Authorization header is answered 401,
\* and the 405 of the JSON-RPC endpoint is given only to requests the
\* authorizer accepted.
C26_OnlyHealthBypasses ==
    authorizer # "nil" =>
        /\ \A s \in Guarded :
              /\ conn[s].authorization = ""
                   => /\ conn[s].response.status = StatusUnauthorized
                      /\ conn[s].response.error = "Authorization header required"
                      /\ ~conn[s].dispatched
              /\ conn[s].response.status = StatusMethodNotAllowed
                   => /\ conn[s].httpMethod # "POST"
                      /\ conn[s].authorization # ""
                      /\ conn[s].authCalls = 1
                      /\ conn[s].authResult.authorized
                      /\ ~conn[s].authResult.err
              /\ (conn[s].httpMethod # "POST" /\ conn[s].authorization # ""
                    /\ conn[s].authResult.authorized /\ ~conn[s].authResult.err)
                   => conn[s].response.status = StatusMethodNotAllowed
        /\ \A s \in Serving \ Guarded :
              conn[s].transport = "http" => conn[s].authCalls = 0

\* a GET on "/health/" without an Authorization header was answered 401
C26_Witness ==
    \E s \in Guarded :
        /\ conn[s].path = "/health/"
        /\ conn[s].httpMethod = "GET"
        /\ conn[s].authorization = ""
        /\ conn[s].response.status = StatusUnauthorized

(***************************************************************************)
(* C27, C28: the append tool on a router without rule sets, and when it    *)
(* fails before its write.                                                 *)
(***************************************************************************)
\* an append call whose GET was answered
AppendFetched(s) ==
    /\ conn[s].pc # "idle"
    /\ conn[s].handlerRan
    /\ conn[s].rpc.tool = "append_event_orchestration_router_rule"
    /\ Len(conn[s].answers) >= 1

\* the call's conditions argument is supplied and is not JSON
BadConditions(s) ==
    /\ "conditions" \in DOMAIN conn[s].rpc.args
    /\ conn[s].rpc.args["conditions"].v # ""
    /\ ~UnmarshalConditions(conn[s].rpc.args["conditions"].v).ok

C28_State ==
    \A s \in Serving :
        AppendFetched(s) =>
            /\ Refused(conn[s].answers[1])
                 => /\ conn[s].pc = "done"
                    /\ conn[s].response.isError
                    /\ conn[s].response.text =
                          "failed to get current router: " \o conn[s].returns[1].err
                    /\ Len(conn[s].calls) = 1
                    /\ conn[s].calls[1].method = "GET"
            /\ (~Refused(conn[s].answers[1]) /\ BadConditions(s))
                 => /\ conn[s].pc = "done"
                    /\ conn[s].response.isError
                    /\ conn[s].response.text = "invalid conditions JSON"
                    /\ Len(conn[s].calls) = 1
                    /\ conn[s].calls[1].method = "GET"

\* C28: an append call that fails before its write leaves the backend's
\* router as it was: after a failed GET the tool returns "failed to get
\* current router: ...", after a GET with conditions that are not JSON it
\* returns "invalid conditions JSON", in both cases without a PUT, and the
\* step in which the call ends so does not change the router.
C28_FailureBeforeWrite ==
    /\ []C28_State
    /\ [][\A s \in DOMAIN conn :
             (conn[s].pc = "waiting" /\ Len(conn[s].calls) = 1
                /\ conn'[s].pc = "done" /\ conn'[s].response.isError)
               => router' = router]_vars

\* an append call with conditions "oops" stopped after its GET
C28_Witness ==
    \E s \in Answered :
        /\ AppendFetched(s)
        /\ BadConditions(s)
        /\ ~Refused(conn[s].answers[1])
        /\ conn[s].response.text = "invalid conditions JSON"
        /\ Len(conn[s].calls) = 1

(***************************************************************************)
(* C29: the incident ids of manage_incidents.                              *)
(***************************************************************************)
\* the tokens of a comma-separated text: the stretches between its commas,
\* each without the blanks around it, those that are all blanks left out
TokensOf(text) ==
    LET q == CHOOSE x \in ListTexts : Str(x) = text
        commas == {i \in 1..Len(q) : q[i] = ","}
        cut(k) == IF k = 0 THEN 0
                  ELSE IF k > Cardinality(commas) THEN Len(q) + 1
                  ELSE CHOOSE i \in commas : Cardinality({j \in commas : j < i}) = k - 1
        inner(k) == {i \in (cut(k - 1) + 1)..(cut(k) - 1) : q[i] # " "}
        first(k) == CHOOSE i \in inner(k) : \A j \in inner(k) : i <= j
        last(k) == CHOOSE i \in inner(k) : \A j \in inner(k) : j <= i
        token == [k \in 1..(Cardinality(commas) + 1) |->
                    IF inner(k) = {} THEN "" ELSE Str(SubSeq(q, first(k), last(k)))]
        nonBlank(x) == x # ""
    IN  SelectSeq(token, nonBlank)

\* C29: a manage_incidents call with a non-empty incident_ids makes one PUT
\* /incidents whose entries are the non-blank tokens of incident_ids, blanks
\* around them removed, in input order and with duplicates kept; a text
\* without a non-blank token gives a PUT with no entry.
C29_EntriesAreTheTokens ==
    \A s \in Serving :
        (/\ conn[s].handlerRan
         /\ conn[s].rpc.tool = "manage_incidents"
         /\ SuppliedString(s, "incident_ids"))
          => LET ids == TokensOf(conn[s].rpc.args["incident_ids"].v)
                 body == conn[s].calls[1].body
             IN  /\ Len(conn[s].calls) = 1
                 /\ conn[s].calls[1].method = "PUT"
                 /\ conn[s].calls[1].path = "/incidents"
                 /\ Len(body) = Len(ids)
                 /\ \A i \in 1..Len(ids) : body[i]["id"] = StringValue(ids[i])

\* incident_ids " , " was accepted and the PUT /incidents has no entry
C29_Witness ==
    \E s \in Serving :
        /\ conn[s].handlerRan
        /\ conn[s].rpc.tool = "manage_incidents"
        /\ SuppliedString(s, "incident_ids")
        /\ conn[s].rpc.args["incident_ids"] = StringValue(" , ")
        /\ Len(conn[s].calls) = 1
        /\ conn[s].calls[1].method = "PUT"
        /\ conn[s].calls[1].body = <<>>

(***************************************************************************)
(* C23, C24: id filters and limits of the listing tools.                   *)
(***************************************************************************)
\* the listing tools with comma-separated id filters, and their filters
IdFilters ==
    [list_services |-> {"team_ids"},
     list_users |-> {"team_ids"},
     list_escalation_policies |-> {"user_ids", "team_ids"},
     list_oncalls |-> {"schedule_ids", "user_ids", "escalation_policy_ids"},
     list_change_events |-> {"team_ids", "service_ids"},
     list_alert_grouping_settings |-> {"service_ids"}]

\* C23: when one of these listing tools is called with an id filter, the
\* URL of its GET holds the key "<filter>[]" with exactly one value, the
\* supplied string as it is, commas and blanks included, and does not hold
\* the filter under its bare name.
C23_IdFilterIsOneValue ==
    \A s \in Serving :
        (conn[s].handlerRan /\ conn[s].rpc.tool \in DOMAIN IdFilters
            /\ Len(conn[s].calls) >= 1)
          => \A p \in IdFilters[conn[s].rpc.tool] :
                LET values == conn[s].calls[1].url.values
                IN  IF SuppliedString(s, p)
                    THEN /\ (p \o "[]") \in DOMAIN values
                         /\ values[p \o "[]"] = <<conn[s].rpc.args[p].v>>
                         /\ p \notin DOMAIN values
                    ELSE /\ (p \o "[]") \notin DOMAIN values
                         /\ p \notin DOMAIN values

\* list_oncalls with schedule_ids "A,B" and user_ids "A, " sent both strings
\* whole, each as the one value of its key
C23_Witness ==
    \E s \in Serving :
        /\ conn[s].handlerRan
        /\ conn[s].rpc.tool = "list_oncalls"
        /\ Len(conn[s].calls) = 1
        /\ conn[s].calls[1].method = "GET"
        /\ conn[s].calls[1].path = "/oncalls"
        /\ DOMAIN conn[s].calls[1].url.values = {"schedule_ids[]", "user_ids[]"}
        /\ conn[s].calls[1].url.values["schedule_ids[]"] = <<"A,B">>
        /\ conn[s].calls[1].url.values["user_ids[]"] = <<"A, ">>

\* the decimal numeral of a whole number
Numeral(n) == IF n < 0 THEN "-" \o ToString(-n) ELSE ToString(n)

\* C24: when a tool that declares a numeric limit is called with one, its GET
\* carries limit as the numeral of the supplied number cut down to a whole
\* number, whether or not that lies in 1..100, the call is not rejected for
\* it, and a call without a limit sends none.
C24_LimitForwardedAsIs ==
    \A s \in Serving :
        (/\ conn[s].handlerRan
         /\ \E i \in 1..Len(HandlerOf(s).query) : HandlerOf(s).query[i][1] = "limit"
         /\ FirstMissing(HandlerOf(s), conn[s].rpc.args) = 0)
          => /\ Len(conn[s].calls) = 1
             /\ conn[s].calls[1].method = "GET"
             /\ IF SuppliedNumber(s, "limit")
                THEN LET v == conn[s].rpc.args["limit"].n
                         whole == CHOOSE m \in -1000..1000 :
                                     IF v >= 0 THEN 10 * m <= v /\ v < 10 * (m + 1)
                                     ELSE 10 * (m - 1) < v /\ v <= 10 * m
                     IN  /\ "limit" \in DOMAIN conn[s].calls[1].url.values
                         /\ conn[s].calls[1].url.values["limit"] = <<Numeral(whole)>>
                ELSE "limit" \notin DOMAIN conn[s].calls[1].url.values

\* list_teams with limit 101 sent limit=101
C24_Witness ==
    \E s \in Serving :
        /\ conn[s].handlerRan
        /\ conn[s].rpc.tool = "list_teams"
        /\ SuppliedNumber(s, "limit")
        /\ conn[s].rpc.args["limit"] = NumberValue(1010)
        /\ Len(conn[s].calls) = 1
        /\ conn[s].calls[1].url.values["limit"] = <<"101">>

(***************************************************************************)
(* Pagination walks.                                                       *)
(***************************************************************************)
Walks == {s \in Serving : conn[s].transport = "paginate"}

RECURSIVE SumCounts(_, _)
\* the counts the first i callbacks returned, added up
SumCounts(callbacks, i) ==
    IF i = 0 THEN 0 ELSE SumCounts(callbacks, i - 1) + callbacks[i].count

\* the walk's budget is reached with the i-th callback
BudgetReached(w, i) ==
    w.maxResults > 0 /\ SumCounts(w.callbacks, i) >= w.maxResults

\* the walk has returned, with this error ("" for nil), after its i-th page
ReturnedAfter(w, i, err) ==
    /\ w.pc = "done"
    /\ w.err = err
    /\ Len(w.calls) = i

\* C22: a walk requests its pages at offsets 0, 100, 200, ... with limit
\* 100; the callback is invoked once for every fetched page, in fetch
\* order, with that page's data; after the first page with which the
\* budget (maxResults > 0) is reached by the callbacks' cumulative count,
\* or whose more is false, the walk returns nil; a failed GET or a failed
\* callback ends the walk at once with that error and no further page is
\* requested.
C22_PageWalk ==
    \A s \in Walks :
        LET w == conn[s]
        IN  /\ \A i \in 1..Len(w.calls) :
                  /\ w.calls[i].method = "GET"
                  /\ w.calls[i].url.values["offset"] = <<ToString(100 * (i - 1))>>
                  /\ w.calls[i].url.values["limit"] = <<"100">>
            /\ Len(w.callbacks) = Cardinality({i \in 1..Len(w.answers) :
                                                  ~Refused(w.answers[i])})
            /\ \A j \in 1..Len(w.callbacks) :
                  /\ ~Refused(w.answers[j])
                  /\ w.callbacks[j].data = w.answers[j].body
            /\ \A i \in 1..Len(w.answers) :
                  /\ Refused(w.answers[i]) =>
                        /\ ReturnedAfter(w, i, w.returns[i].err)
                        /\ w.err # ""
                        /\ Len(w.callbacks) = i - 1
                  /\ (~Refused(w.answers[i]) /\ w.callbacks[i].err # "") =>
                        ReturnedAfter(w, i, w.callbacks[i].err)
                  /\ (/\ ~Refused(w.answers[i])
                      /\ w.callbacks[i].err = ""
                      /\ \/ BudgetReached(w, i)
                         \/ w.answers[i].body.valid /\ ~w.answers[i].body.more) =>
                        ReturnedAfter(w, i, "")

\* a walk that went to its third page, at offset 200, and returned nil
\* there because the budget was reached with more pages on offer
C22_Witness ==
    \E s \in Walks :
        LET w == conn[s]
        IN  /\ ReturnedAfter(w, 3, "")
            /\ w.calls[3].url.values["offset"] = <<"200">>
            /\ Len(w.callbacks) = 3
            /\ BudgetReached(w, 3)
            /\ w.answers[3].body.valid /\ w.answers[3].body.more

\* the i-th page gives the walk a reason to end
EndsWalk(w, i) ==
    \/ Refused(w.answers[i])
    \/ w.callbacks[i].err # ""
    \/ ~w.answers[i].body.valid
    \/ ~w.answers[i].body.more
    \/ BudgetReached(w, i)

\* C30: a walk has no page cap of its own: it has returned exactly when the
\* page it fetched last failed, had its callback fail, did not parse (and
\* then the walk returned nil), reported more = false, or brought the
\* cumulative count to a budget maxResults > 0; while every page parses and
\* reports more = true and the budget is not reached (never, with
\* maxResults = 0 or callbacks that count 0) the walk goes on to the next
\* page.
C30_EndsOnlyForAReason ==
    \A s \in Walks :
        LET w == conn[s]
            n == Len(w.answers)
        IN  /\ \A i \in 1..n : EndsWalk(w, i) <=> (w.pc = "done" /\ i = Len(w.calls))
            /\ w.pc = "done" <=> (n = Len(w.calls))
            /\ w.pc # "done" => (w.pc = "waiting" /\ Len(w.calls) = n + 1)
            /\ \A i \in 1..n :
                  (/\ ~Refused(w.answers[i])
                   /\ w.callbacks[i].err = ""
                   /\ ~w.answers[i].body.valid) => w.err = ""
            /\ (/\ w.maxResults = 0 \/ \A j \in 1..Len(w.callbacks) : w.callbacks[j].count = 0
                /\ \A i \in 1..n :
                      /\ ~Refused(w.answers[i])
                      /\ w.callbacks[i].err = ""
                      /\ w.answers[i].body.valid /\ w.answers[i].body.more) =>
                  w.pc = "waiting"

\* a walk without a budget whose every page so far reported more = true,
\* with full pages counted, is requesting yet another page
C30_Witness ==
    \E s \in Walks :
        LET w == conn[s]
        IN  /\ w.maxResults = 0
            /\ w.pc = "waiting"
            /\ Len(w.calls) = MaxPages
            /\ Len(w.answers) = MaxPages - 1
            /\ \A i \in 1..Len(w.answers) :
                  /\ w.answers[i].body.more
                  /\ w.callbacks[i].count = 100

====
